---- MODULE Spec2Model ----
(***************************************************************************)
(* A model of the request-governing core of kolosal-cli:                   *)
(*   ResponseCache, RequestDeduplicator, CachingContentGenerator,          *)
(*   CircuitBreaker and ModelFallbackManager.                              *)
(* Every component has its own specification (SpecDedup, SpecCCG, SpecCB,  *)
(* SpecMF); they share one clock, `now`, standing for Date.now().          *)
(***************************************************************************)
EXTENDS Integers, Sequences, FiniteSets, TLC

VARIABLES
  now,          \* Date.now(), in abstract milliseconds
  cache,        \* ResponseCache: [map, order, opts]
  inFlight,     \* RequestDeduplicator.inFlightRequests: fingerprint -> promise id
  promises,     \* the promises returned by the executor / wrapped generator
  calls,        \* the callers of deduplicate / generateContent
  cb,           \* CircuitBreaker: [state, failures, successes, lastFailure, lastStateChange]
  cbOpts,       \* CircuitBreaker.options
  cbRuns,       \* the number of execute(fn) calls whose fn is pending
  cbObs,        \* the last operation on the breaker: its time, the state before, its result
  cbHist,       \* every record made since the breaker last closed, and when it opened
  eager,        \* the breaker of the same calls whose cooldown is ended by a timer
  mf,           \* ModelFallbackManager: [models (in Map insertion order), currentModel]
  mfOpts,       \* ModelFallbackManager.options
  mfRuns,       \* the executeWithFallback(fn) calls
  mfObs,        \* the last operation on the manager and its result
  rl,           \* RateLimiter: [tokens, lastRefill, maxTokens, refillRate]
  rlWaits,      \* the acquire / withRateLimit calls: where they are, their wait
  rlAcct,       \* initialTokens + refillRate * (now - t0) less the tokens granted
                \* since t0, the creation or the last reset
  written,      \* ResponseCache: for each key the last set(key, value, ttl) whose
                \* entry has not been removed since; these keys, last touched last
  hc,           \* HistoryCompressor: its options and the history of the chat
  ccg           \* CachingContentGenerator: its cacheOptions and its deduplicator

vars == <<now, cache, inFlight, promises, calls,
          cb, cbOpts, cbRuns, cbObs, cbHist, eager,
          mf, mfOpts, mfRuns, mfObs,
          rl, rlWaits, rlAcct, written, hc, ccg>>

cacheVars == <<cache, inFlight, promises, calls, written, ccg>>
cbVars == <<cb, cbOpts, cbRuns, cbObs, cbHist, eager>>
mfVars == <<mf, mfOpts, mfRuns, mfObs>>
rlVars == <<rl, rlWaits, rlAcct>>
hcVars == <<hc>>

----------------------------------------------------------------------------
(* Bounds of the model.                                                    *)

MaxTime == 4
MaxCallers == 2
MaxPromises == 2
MaxTimeCaching == 2
MaxRecords == 4
MaxRuns == 1
MaxTimeFallback == 2
MaxTimeLimiter == 2
MaxTimeCache == 2
MaxTurns == 3

----------------------------------------------------------------------------
(* Generic helpers.                                                        *)

Min(a, b) == IF a < b THEN a ELSE b
Max(a, b) == IF a > b THEN a ELSE b

\* A JavaScript Map as a TLA+ function whose domain is the set of present keys.
EmptyMap == [k \in {} |-> FALSE]
MapHas(m, k) == k \in DOMAIN m
MapSet(m, k, v) == [x \in (DOMAIN m) \cup {k} |-> IF x = k THEN v ELSE m[x]]
MapDelete(m, k) == [x \in (DOMAIN m) \ {k} |-> m[x]]

SeqIndexOf(s, x) ==
  IF \E i \in 1..Len(s) : s[i] = x
  THEN CHOOSE i \in 1..Len(s) : s[i] = x /\ \A j \in 1..(i - 1) : s[j] # x
  ELSE 0

SeqRemoveAt(s, i) == [j \in 1..(Len(s) - 1) |-> IF j < i THEN s[j] ELSE s[j + 1]]

----------------------------------------------------------------------------
(* JavaScript values, as far as JSON.stringify tells them apart.           *)
(* An object is its list of properties in insertion order.                 *)

JUndef == [t |-> "undef", s |-> "", xs |-> <<>>]
JStr(s) == [t |-> "str", s |-> s, xs |-> <<>>]
JNum(s) == [t |-> "num", s |-> s, xs |-> <<>>]
JArr(xs) == [t |-> "arr", s |-> "", xs |-> xs]
JObj(ps) == [t |-> "obj", s |-> "", xs |-> ps]
Prop(k, v) == [k |-> k, v |-> v]

\* Object.keys(o): the property names in insertion order.
ObjectKeys(o) == [i \in 1..Len(o.xs) |-> o.xs[i].k]

HasProp(o, k) == o.t = "obj" /\ \E i \in 1..Len(o.xs) : o.xs[i].k = k

\* o[k], or o?.k on undefined
GetProp(o, k) ==
  IF HasProp(o, k)
  THEN o.xs[CHOOSE i \in 1..Len(o.xs) : o.xs[i].k = k].v
  ELSE JUndef

\* The property names of the model in the order Array.prototype.sort() gives
\* them (UTF-16 code units).
NameOrder == <<"config", "contents", "maxTokens", "model", "parts", "prompt",
               "role", "temperature", "text", "topK", "topP">>

\* Object.keys(o).sort()
SortedKeys(o) == SelectSeq(NameOrder, LAMBDA n : HasProp(o, n))

\* The replacer argument of JSON.stringify: none, or an array of names, which
\* then is the property list of EVERY object of the value, at any depth.
NoReplacer == [on |-> FALSE, names |-> <<>>]
ArrayReplacer(names) == [on |-> TRUE, names |-> names]

RECURSIVE Stringify(_, _)
RECURSIVE StringifyElems(_, _, _)
RECURSIVE StringifyProps(_, _, _, _)

\* JSON.stringify(v, replacer) as its sequence of tokens
Stringify(v, rep) ==
  CASE v.t = "str" -> <<"S", v.s>>
    [] v.t = "num" -> <<"N", v.s>>
    [] v.t = "undef" -> <<"null">>
    [] v.t = "arr" -> <<"[">> \o StringifyElems(v.xs, 1, rep) \o <<"]">>
    [] v.t = "obj" ->
         <<"{">> \o StringifyProps(v, IF rep.on THEN rep.names ELSE ObjectKeys(v), 1, rep)
                 \o <<"}">>

StringifyElems(xs, i, rep) ==
  IF i > Len(xs) THEN <<>>
  ELSE Stringify(xs[i], rep) \o <<",">> \o StringifyElems(xs, i + 1, rep)

\* SerializeJSONObject: the names of the property list K in K's order; a
\* property that is absent or undefined is left out.
StringifyProps(o, K, i, rep) ==
  IF i > Len(K) THEN <<>>
  ELSE (IF GetProp(o, K[i]).t = "undef" THEN <<>>
        ELSE <<K[i], ":">> \o Stringify(GetProp(o, K[i]), rep) \o <<",">>)
       \o StringifyProps(o, K, i + 1, rep)

\* crypto.createHash('sha256').update(s).digest('hex'): taken to be injective
Sha256(s) == <<"sha256">> \o s

----------------------------------------------------------------------------
(* ResponseCache                                                           *)

DefaultTtl == 1
DefaultMaxSize == 100

NoValue == [ok |-> FALSE, cands |-> 0, tag |-> 0]

NewCache(opts) == [map |-> EmptyMap, order |-> <<>>, opts |-> opts]

DefaultCacheOptions == [ttl |-> DefaultTtl, maxSize |-> DefaultMaxSize, enabled |-> TRUE]

hashKey(params) == Sha256(Stringify(params, ArrayReplacer(SortedKeys(params))))

\* a removal that leaves the access order as it is
removeFromNothing(order, key) == order

removeFromAccessOrder(order, key) ==
  IF SeqIndexOf(order, key) # 0 THEN SeqRemoveAt(order, SeqIndexOf(order, key)) ELSE order

updateAccessOrder(order, key) == Append(removeFromAccessOrder(order, key), key)

Expired(entry, t) == t - entry.timestamp > entry.ttl

\* get(key) at time t: the cache afterwards, and the value returned
CacheGet(C, key, t) ==
  IF ~C.opts.enabled THEN [c |-> C, hit |-> FALSE, val |-> NoValue]
  ELSE IF ~MapHas(C.map, key) THEN [c |-> C, hit |-> FALSE, val |-> NoValue]
  ELSE IF Expired(C.map[key], t)
       THEN [c |-> [C EXCEPT !.map = MapDelete(C.map, key),
                             !.order = removeFromAccessOrder(C.order, key)],
             hit |-> FALSE, val |-> NoValue]
       ELSE [c |-> [C EXCEPT !.order = updateAccessOrder(C.order, key)],
             hit |-> TRUE, val |-> C.map[key].value]

evictOldest(C) ==
  IF Len(C.order) = 0 THEN C
  ELSE [C EXCEPT !.map = MapDelete(C.map, C.order[1]), !.order = Tail(C.order)]

\* set(key, value, ttl) at time t; ttl is <<>> when the argument is left out
CacheSetTtl(C, key, value, ttl, t) ==
  IF ~C.opts.enabled THEN C
  ELSE LET effectiveTtl == IF ttl = <<>> THEN C.opts.ttl ELSE ttl[1]
           E == IF Cardinality(DOMAIN C.map) >= C.opts.maxSize /\ ~MapHas(C.map, key)
                THEN evictOldest(C) ELSE C
       IN [E EXCEPT !.map = MapSet(E.map, key,
                                   [value |-> value, timestamp |-> t, ttl |-> effectiveTtl]),
                    !.order = updateAccessOrder(E.order, key)]

\* set(key, value) at time t with the default ttl
CacheSet(C, key, value, t) == CacheSetTtl(C, key, value, <<>>, t)

\* has(key) at time t: get(key) !== null
CacheHas(C, key, t) == [c |-> CacheGet(C, key, t).c, ret |-> CacheGet(C, key, t).hit]

\* clear() that removes nothing
CacheClearNothing(C) == C

\* clear()
CacheClear(C) == [C EXCEPT !.map = EmptyMap, !.order = <<>>]

\* size()
CacheSize(C) == Cardinality(DOMAIN C.map)

\* setOptions that does not evict
CacheSetOptionsOnly(C, options) ==
  [C EXCEPT !.opts = [f \in DOMAIN C.opts |->
                        IF f \in DOMAIN options THEN options[f] ELSE C.opts[f]]]

\* while (this.cache.size > this.options.maxSize) this.evictOldest()
RECURSIVE EvictExcess(_)
EvictExcess(C) ==
  IF CacheSize(C) > C.opts.maxSize /\ evictOldest(C) # C THEN EvictExcess(evictOldest(C)) ELSE C

\* setOptions(options); options holds the fields that are given
CacheSetOptions(C, options) ==
  LET merged == [C EXCEPT !.opts = [f \in DOMAIN C.opts |->
                                      IF f \in DOMAIN options THEN options[f] ELSE C.opts[f]]]
  IN EvictExcess(IF ~merged.opts.enabled THEN CacheClear(merged) ELSE merged)

ExpiredKeys(C, t) == {k \in DOMAIN C.map : Expired(C.map[k], t)}

\* cleanup() at time t
CacheCleanup(C, t) ==
  [C EXCEPT !.map = [k \in (DOMAIN C.map) \ ExpiredKeys(C, t) |-> C.map[k]],
            !.order = SelectSeq(C.order, LAMBDA k : k \notin ExpiredKeys(C, t))]

----------------------------------------------------------------------------
(* The requests of the model (GenerateContentParameters).                  *)

Contents(txt) ==
  JArr(<<JObj(<<Prop("role", JStr("user")),
                Prop("parts", JArr(<<JObj(<<Prop("text", JStr(txt))>>)>>))>>)>>)

\* 1 and 2 differ in the text of a nested part only, 3 differs from 1 in the
\* temperature.
Request(i) ==
  CASE i = 1 -> [model |-> "m1", contents |-> Contents("a"), config |-> JUndef]
    [] i = 2 -> [model |-> "m1", contents |-> Contents("b"), config |-> JUndef]
    [] OTHER -> [model |-> "m1", contents |-> Contents("a"),
                 config |-> JObj(<<Prop("temperature", JNum("0"))>>)]

Requests == {1, 2}
Callers == 1..MaxCallers

\* the callers of generateContent: two, each calling again and again
GenCallers == {1, 2}

----------------------------------------------------------------------------
(* RequestDeduplicator                                                     *)

\* hashRequest(params): JSON.stringify of {model, contents: JSON.stringify(contents),
\* config: JSON.stringify(config || {})}
hashRequest(params) ==
  <<"{", "model", ":", "S", params.model, ",", "contents", ":", "S">>
    \o Stringify(params.contents, NoReplacer)
    \o <<",", "config", ":", "S">>
    \o Stringify(IF params.config.t = "undef" THEN JObj(<<>>) ELSE params.config, NoReplacer)
    \o <<"}">>

\* the fingerprint of each request of the model
FingerprintOf == [r \in Requests |-> hashRequest(Request(r))]

NoCall == [pc |-> "idle", req |-> 0, prom |-> 0, owner |-> FALSE, hit |-> FALSE,
           pend |-> {}, warm |-> FALSE, ret |-> NoValue, doneAt |-> 0]

NewPromise(r) == [req |-> r, st |-> "pending", cands |-> 0, fin |-> FALSE]

\* the value or error a settled promise carries; each invocation of the
\* executor produces its own object, told apart by tag
Outcome(p) == [ok |-> promises[p].st = "resolved", cands |-> promises[p].cands, tag |-> p]

\* the invocations of the executor for the fingerprint of r that are pending
PendingFor(r) ==
  {p \in 1..Len(promises) :
     /\ promises[p].st = "pending"
     /\ FingerprintOf[promises[p].req] = FingerprintOf[r]}

RegisterNothing(m, key, p) == m

UnregisterNothing(m, key) == m

\* this.inFlightRequests.delete(key)
Unregister(m, key) == MapDelete(m, key)

\* this.inFlightRequests.set(key, promise)
Register(m, key, p) == MapSet(m, key, p)

\* deduplicate(params, executor) up to its await, for caller c at the request r
\* (w: what the caller notes about the cache when it calls)
DeduplicateSync(c, r, w) ==
  LET key == FingerprintOf[r] IN
  IF MapHas(inFlight, key)
  THEN /\ calls' = [calls EXCEPT ![c] = [NoCall EXCEPT !.pc = "awaitShared", !.req = r,
                                          !.prom = inFlight[key], !.pend = PendingFor(r),
                                          !.warm = w]]
       /\ UNCHANGED <<inFlight, promises>>
  ELSE /\ promises' = Append(promises, NewPromise(r))
       /\ inFlight' = Register(inFlight, key, Len(promises) + 1)
       /\ calls' = [calls EXCEPT ![c] = [NoCall EXCEPT !.pc = "awaitOwner", !.req = r,
                                          !.prom = Len(promises) + 1, !.owner = TRUE,
                                          !.pend = PendingFor(r), !.warm = w]]

\* a caller calls deduplicate(params, executor) directly, for the first time
\* or after it observed the outcome of its last call
DedupCall(c, r) ==
  /\ calls[c].pc \in {"idle", "settled"}
  /\ MapHas(inFlight, FingerprintOf[r]) \/ Len(promises) < MaxPromises
  /\ DeduplicateSync(c, r, FALSE)
  /\ UNCHANGED <<now, ccg, cache, cbVars, mfVars, rlVars, written, hcVars>>

\* the promise of the executor (the transport call) resolves or rejects
Settle(p, ok, n) ==
  /\ p \in 1..Len(promises)
  /\ promises[p].st = "pending"
  /\ promises' = [promises EXCEPT ![p].st = IF ok THEN "resolved" ELSE "rejected",
                                  ![p].cands = IF ok THEN n ELSE 0]
  /\ UNCHANGED <<now, ccg, cache, inFlight, calls, cbVars, mfVars, rlVars, written, hcVars>>

\* the first caller resumes after `await promise`: the finally block deletes
\* the key, then the result is returned or the error rethrown
OwnerCont(c) ==
  /\ calls[c].pc = "awaitOwner"
  /\ promises[calls[c].prom].st # "pending"
  /\ inFlight' = Unregister(inFlight, FingerprintOf[calls[c].req])
  /\ promises' = [promises EXCEPT ![calls[c].prom].fin = TRUE]
  /\ calls' = [calls EXCEPT ![c].pc = "settled", ![c].ret = Outcome(calls[c].prom)]
  /\ UNCHANGED <<now, ccg, cache, cbVars, mfVars, rlVars, written, hcVars>>

\* a caller that was handed the existing promise settles with it; its reaction
\* is queued behind the first caller's, which was registered before
SharedCont(c) ==
  /\ calls[c].pc = "awaitShared"
  /\ promises[calls[c].prom].st # "pending"
  /\ promises[calls[c].prom].fin
  /\ calls' = [calls EXCEPT ![c].pc = "settled", ![c].ret = Outcome(calls[c].prom)]
  /\ UNCHANGED <<now, ccg, cache, inFlight, promises, cbVars, mfVars, rlVars, written, hcVars>>

\* isInFlight(params)
isInFlight(r) == MapHas(inFlight, FingerprintOf[r])

\* getInFlightCount()
getInFlightCount == Cardinality(DOMAIN inFlight)

\* clear(): this.inFlightRequests.clear(); the promises of the executors and
\* the callers awaiting them are not touched
DedupClear ==
  /\ inFlight' = << >>
  /\ UNCHANGED <<now, ccg, cache, promises, calls, cbVars, mfVars, rlVars, written, hcVars>>

----------------------------------------------------------------------------
(* CachingContentGenerator                                                 *)

\* the constructor, for cacheOptions.enableDeduplication (<<>> when it is
\* left out): the instance uses the global deduplicator, or one of its own
Generator(enableDeduplication) ==
  LET dedupEnabled == enableDeduplication # <<FALSE>>
  IN [enableDeduplication |-> enableDeduplication,
      deduplicator |-> IF dedupEnabled THEN "getGlobalDeduplicator()"
                       ELSE "new RequestDeduplicator()"]

\* getCacheKey(req)
getCacheKey(req) ==
  JObj(<<Prop("model", JStr(req.model)),
         Prop("contents", req.contents),
         Prop("temperature", GetProp(req.config, "temperature")),
         Prop("topK", GetProp(req.config, "topK")),
         Prop("topP", GetProp(req.config, "topP")),
         Prop("maxTokens", GetProp(req.config, "maxOutputTokens"))>>)

\* the cache key of each request of the model
CacheKeyOf == [r \in Requests |-> hashKey(getCacheKey(Request(r)))]

\* at the issue of a call for r: an earlier call for the identical request has
\* completed with a response of the wrapped generator that has a candidate,
\* no longer ago than the ttl
Warm(c, r) ==
  \E d \in GenCallers \ {c} :
    /\ calls[d].pc = "done" /\ calls[d].req = r /\ calls[d].owner
    /\ calls[d].ret.ok /\ calls[d].ret.cands > 0
    /\ now - calls[d].doneAt <= cache.opts.ttl

\* generateContent(req) up to its await: the cache lookup, and on a miss the
\* synchronous part of deduplicate, whose executor calls the wrapped generator
GenCall(c, r) ==
  /\ calls[c].pc \in {"idle", "done"}
  /\ LET got == CacheGet(cache, CacheKeyOf[r], now) IN
       /\ got.hit \/ Len(promises) < MaxPromises
       /\ cache' = got.c
       /\ IF got.hit
          THEN /\ calls' = [calls EXCEPT ![c] = [NoCall EXCEPT !.pc = "done", !.req = r,
                                                  !.hit = TRUE, !.pend = PendingFor(r),
                                                  !.warm = Warm(c, r),
                                                  !.ret = got.val, !.doneAt = now]]
               /\ UNCHANGED <<inFlight, promises>>
          ELSE DeduplicateSync(c, r, Warm(c, r))
  /\ UNCHANGED <<now, ccg, cbVars, mfVars, rlVars, written, hcVars>>

\* generateContent resumes after `await this.deduplicator.deduplicate(...)`:
\* a response with candidates is written to the cache; an error propagates
GenCont(c) ==
  /\ calls[c].pc = "settled"
  /\ cache' = IF calls[c].ret.ok /\ calls[c].ret.cands > 0
              THEN CacheSet(cache, CacheKeyOf[calls[c].req], calls[c].ret, now)
              ELSE cache
  /\ calls' = [calls EXCEPT ![c].pc = "done", ![c].doneAt = now]
  /\ UNCHANGED <<now, ccg, inFlight, promises, cbVars, mfVars, rlVars, written, hcVars>>

\* the cleanup interval fires: this.cache.cleanup()
GenCleanup ==
  /\ cache' = CacheCleanup(cache, now)
  /\ cache' # cache
  /\ UNCHANGED <<now, ccg, inFlight, promises, calls, cbVars, mfVars, rlVars, written, hcVars>>

----------------------------------------------------------------------------
(* CircuitBreaker.  The operations are functions of the breaker b, the     *)
(* time t of the call and the options o.                                   *)

\* transitionTo stamping lastStateChange also when the state stays
transitionToRestamp(b, newState, t) ==
  [b EXCEPT !.state = newState,
            !.lastStateChange = t,
            !.failures = IF newState = "closed" THEN <<>> ELSE @,
            !.successes = IF newState = "closed" THEN <<>> ELSE @]

\* transitionTo(newState) at time t
transitionTo(b, newState, t) ==
  IF b.state # newState
  THEN [b EXCEPT !.state = newState,
                 !.lastStateChange = t,
                 !.failures = IF newState = "closed" THEN <<>> ELSE @,
                 !.successes = IF newState = "closed" THEN <<>> ELSE @]
  ELSE b

\* a cleanup that drops nothing
cleanupNothing(b, t, o) == b

\* cleanupOldRecords() at time t
cleanupOldRecords(b, t, o) ==
  [b EXCEPT !.failures = SelectSeq(@, LAMBDA x : x > t - o.windowMs),
            !.successes = SelectSeq(@, LAMBDA x : x > t - o.windowMs)]

\* shouldOpen with > for >= in the failure count
shouldOpenStrict(b, o) ==
  LET recentFailures == Len(b.failures)
      total == recentFailures + Len(b.successes)
  IN IF recentFailures > o.failureThreshold THEN TRUE
     ELSE IF o.hasRate /\ total >= o.failureThreshold
          THEN Len(b.successes) * o.rateDen < o.rateNum * total
          ELSE FALSE

\* shouldOpen(); successRate < successRateThreshold is compared in integers:
\* the threshold is rateNum / rateDen
shouldOpen(b, o) ==
  LET recentFailures == Len(b.failures)
      total == recentFailures + Len(b.successes)
  IN IF recentFailures >= o.failureThreshold THEN TRUE
     ELSE IF o.hasRate /\ total >= o.failureThreshold
          THEN Len(b.successes) * o.rateDen < o.rateNum * total
          ELSE FALSE

\* checkStateTransition() at time t
checkStateTransition(b, t, o) ==
  IF b.state = "open" /\ t - b.lastStateChange >= o.resetTimeout
  THEN transitionTo(b, "half_open", t)
  ELSE b

\* recordSuccess() at time t
recordSuccess(b, t, o) ==
  LET b1 == cleanupOldRecords([b EXCEPT !.successes = Append(@, t)], t, o)
  IN IF b1.state = "half_open" THEN transitionTo(b1, "closed", t) ELSE b1

\* recordFailure without the HALF_OPEN branch
recordFailureNoProbe(b, t, o) ==
  LET b1 == cleanupOldRecords([b EXCEPT !.failures = Append(@, t), !.lastFailure = t], t, o)
  IN IF shouldOpen(b1, o) THEN transitionTo(b1, "open", t) ELSE b1

\* recordFailure() at time t
recordFailure(b, t, o) ==
  LET b1 == cleanupOldRecords([b EXCEPT !.failures = Append(@, t), !.lastFailure = t], t, o)
  IN IF b1.state = "half_open" THEN transitionTo(b1, "open", t)
     ELSE IF shouldOpen(b1, o) THEN transitionTo(b1, "open", t)
     ELSE b1

\* a force control that changes nothing
forceNothing(b, t) == b

\* forceClose() at time t
forceClose(b, t) == transitionTo(b, "closed", t)

\* forceOpen() at time t
forceOpen(b, t) == transitionTo(b, "open", t)

\* reset() at time t
reset(b, t) ==
  [state |-> "closed", failures |-> <<>>, successes |-> <<>>, lastFailure |-> 0,
   lastStateChange |-> t]

\* isAllowed() on the breaker after getState()'s checkStateTransition
Allowed(b) == b.state = "closed" \/ b.state = "half_open"

\* getTimeUntilReset measuring from the last failure
getTimeUntilResetFromFailure(b, t, o) ==
  IF b.state # "open" THEN 0
  ELSE Max(0, o.resetTimeout - (t - b.lastFailure))

\* getTimeUntilReset() at time t
getTimeUntilReset(b, t, o) ==
  IF b.state # "open" THEN 0
  ELSE Max(0, o.resetTimeout - (t - b.lastStateChange))

\* the timer of the eager breaker: OPEN becomes HALF_OPEN at exactly
\* lastStateChange + resetTimeout, whether or not anything is called
timerFired(b, t, o) ==
  IF b.state = "open" /\ t - b.lastStateChange >= o.resetTimeout
  THEN [b EXCEPT !.state = "half_open", !.lastStateChange = b.lastStateChange + o.resetTimeout]
  ELSE b

\* getStats() at time t: the breaker it leaves and the object it returns;
\* successRate is the pair successes / total
getStats(b, t, o) ==
  LET b1 == cleanupOldRecords(b, t, o)
      total == Len(b1.failures) + Len(b1.successes)
      b2 == checkStateTransition(b1, t, o)
  IN [b |-> b2,
      stats |-> [state |-> b2.state,
                 failures |-> Len(b2.failures),
                 successes |-> Len(b2.successes),
                 successRate |-> IF total > 0 THEN <<Len(b1.successes), total>> ELSE <<1, 1>>,
                 timeUntilReset |-> getTimeUntilReset(b2, t, o)]]

\* no operation observed yet
NoObs == [op |-> "none"]

\* what an operation leaves in cbObs: its name, its time, the breaker and the
\* history before it, and what it returned or threw
Obs(op, ret) ==
  [op |-> op, at |-> now, pre |-> cb, preOpenedAt |-> cbHist.openedAt, ret |-> ret]

\* the history after an operation that turns the breaker b into b2, having
\* recorded rec ("failure", "success" or "none")
HistAfter(b2, rec) ==
  LET cleared == b2.state = "closed" /\ cb.state # "closed"
      opened == b2.state = "open" /\ cb.state # "open"
  IN [failures |-> IF cleared THEN <<>>
                   ELSE IF rec = "failure" THEN Append(cbHist.failures, now)
                   ELSE cbHist.failures,
      successes |-> IF cleared THEN <<>>
                    ELSE IF rec = "success" THEN Append(cbHist.successes, now)
                    ELSE cbHist.successes,
      openedAt |-> IF opened THEN now ELSE cbHist.openedAt,
      whileOpen |-> IF opened THEN 0
                    ELSE IF rec # "none" /\ cb.state = "open" /\ b2.state = "open"
                         THEN Min(cbHist.whileOpen + 1, 1)
                    ELSE cbHist.whileOpen]

\* room for one more record
CBRoom == Len(cb.failures) + Len(cb.successes) < MaxRecords

\* getState()
CBGetState ==
  /\ cb' = checkStateTransition(cb, now, cbOpts)
  /\ cbObs' = Obs("getState", cb'.state)
  /\ cbHist' = HistAfter(cb', "none")
  /\ UNCHANGED <<now, cacheVars, cbOpts, eager, cbRuns, mfVars, rlVars, hcVars>>

\* isAllowed()
CBIsAllowed ==
  /\ cb' = checkStateTransition(cb, now, cbOpts)
  /\ cbObs' = Obs("isAllowed", Allowed(cb'))
  /\ cbHist' = HistAfter(cb', "none")
  /\ UNCHANGED <<now, cacheVars, cbOpts, eager, cbRuns, mfVars, rlVars, hcVars>>

\* recordSuccess()
CBRecordSuccess ==
  /\ CBRoom
  /\ cb' = recordSuccess(cb, now, cbOpts)
  /\ cbObs' = Obs("recordSuccess", "void")
  /\ cbHist' = HistAfter(cb', "success")
  /\ UNCHANGED <<now, cacheVars, cbOpts, eager, cbRuns, mfVars, rlVars, hcVars>>

\* recordFailure()
CBRecordFailure ==
  /\ CBRoom
  /\ cb' = recordFailure(cb, now, cbOpts)
  /\ cbObs' = Obs("recordFailure", "void")
  /\ cbHist' = HistAfter(cb', "failure")
  /\ UNCHANGED <<now, cacheVars, cbOpts, eager, cbRuns, mfVars, rlVars, hcVars>>

\* execute(fn) up to `await fn()`: throws CircuitOpenError when not allowed,
\* else invokes fn
CBExecute ==
  /\ cbRuns < MaxRuns
  /\ cb' = checkStateTransition(cb, now, cbOpts)
  /\ cbHist' = HistAfter(cb', "none")
  /\ IF Allowed(cb')
     THEN /\ cbRuns' = cbRuns + 1
          /\ cbObs' = Obs("execute", [invoked |-> TRUE, error |-> "none", timeUntilReset |-> 0])
     ELSE /\ cbRuns' = cbRuns
          /\ cbObs' = Obs("execute", [invoked |-> FALSE, error |-> "CircuitOpenError",
                                      timeUntilReset |-> getTimeUntilReset(cb', now, cbOpts)])
  /\ UNCHANGED <<now, cacheVars, cbOpts, eager, mfVars, rlVars, hcVars>>

\* execute(fn) after `await fn()`: records the outcome, returns or rethrows
CBExecuteSettle(ok) ==
  /\ cbRuns > 0
  /\ CBRoom
  /\ cbRuns' = cbRuns - 1
  /\ cb' = IF ok THEN recordSuccess(cb, now, cbOpts) ELSE recordFailure(cb, now, cbOpts)
  /\ cbObs' = Obs(IF ok THEN "recordSuccess" ELSE "recordFailure", "execute")
  /\ cbHist' = HistAfter(cb', IF ok THEN "success" ELSE "failure")
  /\ UNCHANGED <<now, cacheVars, cbOpts, eager, mfVars, rlVars, hcVars>>

\* getStats()
CBGetStats ==
  /\ cb' = getStats(cb, now, cbOpts).b
  /\ cbObs' = Obs("getStats", getStats(cb, now, cbOpts).stats)
  /\ cbHist' = HistAfter(cb', "none")
  /\ UNCHANGED <<now, cacheVars, cbOpts, eager, cbRuns, mfVars, rlVars, hcVars>>

\* no eager breaker is kept next to the breaker
NoEager == [state |-> "none", failures |-> <<>>, successes |-> <<>>, lastFailure |-> 0,
            lastStateChange |-> 0]

\* the eager breaker after a call that leaves it as b2, where one is kept
EagerAfter(b2) == IF eager = NoEager THEN eager ELSE b2

\* the calls made on the breaker and on the eager breaker alike
PairRoom == CBRoom /\ Len(eager.failures) + Len(eager.successes) < MaxRecords

\* getState() on both
PairGetState ==
  /\ cb' = checkStateTransition(cb, now, cbOpts)
  /\ eager' = EagerAfter(timerFired(eager, now, cbOpts))
  /\ cbObs' = [op |-> "getState"]
  /\ UNCHANGED <<now, cacheVars, cbOpts, cbRuns, cbHist, mfVars, rlVars, hcVars>>

\* isAllowed() on both
PairIsAllowed ==
  /\ cb' = checkStateTransition(cb, now, cbOpts)
  /\ eager' = EagerAfter(timerFired(eager, now, cbOpts))
  /\ cbObs' = [op |-> "isAllowed"]
  /\ UNCHANGED <<now, cacheVars, cbOpts, cbRuns, cbHist, mfVars, rlVars, hcVars>>

\* recordSuccess() on both
PairRecordSuccess ==
  /\ PairRoom
  /\ cb' = recordSuccess(cb, now, cbOpts)
  /\ eager' = EagerAfter(recordSuccess(timerFired(eager, now, cbOpts), now, cbOpts))
  /\ cbObs' = [op |-> "recordSuccess"]
  /\ UNCHANGED <<now, cacheVars, cbOpts, cbRuns, cbHist, mfVars, rlVars, hcVars>>

\* recordFailure() on both
PairRecordFailure ==
  /\ PairRoom
  /\ cb' = recordFailure(cb, now, cbOpts)
  /\ eager' = EagerAfter(recordFailure(timerFired(eager, now, cbOpts), now, cbOpts))
  /\ cbObs' = [op |-> "recordFailure"]
  /\ UNCHANGED <<now, cacheVars, cbOpts, cbRuns, cbHist, mfVars, rlVars, hcVars>>

\* execute(fn) on the breaker up to `await fn()`; the eager breaker is read
PairExecute ==
  /\ cbRuns < MaxRuns
  /\ cb' = checkStateTransition(cb, now, cbOpts)
  /\ eager' = EagerAfter(timerFired(eager, now, cbOpts))
  /\ cbRuns' = IF Allowed(cb') THEN cbRuns + 1 ELSE cbRuns
  /\ cbObs' = [op |-> "execute"]
  /\ UNCHANGED <<now, cacheVars, cbOpts, cbHist, mfVars, rlVars, hcVars>>

\* execute(fn) after `await fn()`: the outcome is recorded on both
PairExecuteSettle(ok) ==
  /\ cbRuns > 0
  /\ PairRoom
  /\ cbRuns' = cbRuns - 1
  /\ cb' = IF ok THEN recordSuccess(cb, now, cbOpts) ELSE recordFailure(cb, now, cbOpts)
  /\ eager' = EagerAfter(IF ok THEN recordSuccess(timerFired(eager, now, cbOpts), now, cbOpts)
                          ELSE recordFailure(timerFired(eager, now, cbOpts), now, cbOpts))
  /\ cbObs' = [op |-> IF ok THEN "recordSuccess" ELSE "recordFailure"]
  /\ UNCHANGED <<now, cacheVars, cbOpts, cbHist, mfVars, rlVars, hcVars>>

\* forceClose() on both
PairForceClose ==
  /\ cb' = forceClose(cb, now)
  /\ eager' = EagerAfter(forceClose(timerFired(eager, now, cbOpts), now))
  /\ cbObs' = [op |-> "forceClose"]
  /\ UNCHANGED <<now, cacheVars, cbOpts, cbRuns, cbHist, mfVars, rlVars, hcVars>>

\* forceOpen() on both
PairForceOpen ==
  /\ cb' = forceOpen(cb, now)
  /\ eager' = EagerAfter(forceOpen(timerFired(eager, now, cbOpts), now))
  /\ cbObs' = [op |-> "forceOpen"]
  /\ UNCHANGED <<now, cacheVars, cbOpts, cbRuns, cbHist, mfVars, rlVars, hcVars>>

\* reset() on both
PairReset ==
  /\ cb' = reset(cb, now)
  /\ eager' = EagerAfter(reset(eager, now))
  /\ cbObs' = [op |-> "reset"]
  /\ UNCHANGED <<now, cacheVars, cbOpts, cbRuns, cbHist, mfVars, rlVars, hcVars>>

\* the clock of the breaker advances
TickCB ==
  /\ now < MaxTime
  /\ now' = now + 1
  /\ UNCHANGED <<cacheVars, cbVars, mfVars, rlVars, hcVars>>

----------------------------------------------------------------------------
(* ModelFallbackManager.  this.models is a Map: a sequence of configs in   *)
(* insertion order.  An absent lastFailure (undefined) is 0, which is      *)
(* falsy as in the source; the clock of the manager starts at 1.           *)

ModelIds == {"A", "B"}

\* the configs given to addModel: equal and different priorities, in either
\* order of registration
Configs ==
  { [model |-> "A", priority |-> 1], [model |-> "A", priority |-> 2],
    [model |-> "B", priority |-> 1] }
NoModel == "null"

\* this.models.has(id), this.models.get(id)
ModelsHas(ms, id) == \E i \in DOMAIN ms : ms[i].model = id
ModelsGet(ms, id) == ms[CHOOSE i \in DOMAIN ms : ms[i].model = id]

\* this.models.set(cfg.model, cfg): an existing key keeps its position
ModelsSet(ms, cfg) ==
  IF ModelsHas(ms, cfg.model)
  THEN [i \in DOMAIN ms |-> IF ms[i].model = cfg.model THEN cfg ELSE ms[i]]
  ELSE Append(ms, cfg)

\* this.models.delete(id)
ModelsDelete(ms, id) == SelectSeq(ms, LAMBDA c : c.model # id)

\* .filter((m) => m.healthy)
FilterHealthy(ms) == SelectSeq(ms, LAMBDA c : c.healthy)

\* the array as it was given: no sort
SortUnsorted(ms) == ms

\* .sort((a, b) => a.priority - b.priority); Array.prototype.sort is stable
RECURSIVE InsertByPriority(_, _)
InsertByPriority(x, s) ==
  IF s = <<>> THEN <<x>>
  ELSE IF x.priority < Head(s).priority THEN <<x>> \o s
  ELSE <<Head(s)>> \o InsertByPriority(x, Tail(s))

RECURSIVE SortByPriority(_)
SortByPriority(ms) ==
  IF ms = <<>> THEN <<>>
  ELSE InsertByPriority(ms[Len(ms)], SortByPriority(SubSeq(ms, 1, Len(ms) - 1)))

\* updateCurrentModel()
updateCurrentModel(m) ==
  LET healthyModels == SortByPriority(FilterHealthy(m.models))
  IN [m EXCEPT !.currentModel = IF Len(healthyModels) > 0 THEN healthyModels[1].model
                                ELSE NoModel]

\* addModel(config)
addModel(m, config) ==
  updateCurrentModel(
    [m EXCEPT !.models = ModelsSet(@, [model |-> config.model, priority |-> config.priority,
                                       healthy |-> TRUE,
                                       failureCount |-> 0, lastFailure |-> 0])])

\* removeModel(id)
removeModel(m, id) ==
  LET m1 == [m EXCEPT !.models = ModelsDelete(@, id)]
  IN IF m.currentModel = id THEN updateCurrentModel(m1) ELSE m1

\* recordSuccess(id)
mfRecordSuccess(m, id) ==
  [m EXCEPT !.models = [i \in DOMAIN @ |->
     IF @[i].model = id THEN [@[i] EXCEPT !.failureCount = 0, !.healthy = TRUE] ELSE @[i]]]

\* recordFailure marking unhealthy only above maxFailures
mfRecordFailureLate(m, id, t, o) ==
  IF ~ModelsHas(m.models, id) THEN m
  ELSE LET m1 == [m EXCEPT !.models = [i \in DOMAIN @ |->
                    IF @[i].model = id
                    THEN [@[i] EXCEPT !.failureCount = @ + 1, !.lastFailure = t]
                    ELSE @[i]]]
       IN IF ModelsGet(m1.models, id).failureCount > o.maxFailures
          THEN updateCurrentModel([m1 EXCEPT !.models = [i \in DOMAIN @ |->
                 IF @[i].model = id THEN [@[i] EXCEPT !.healthy = FALSE] ELSE @[i]]])
          ELSE m1

\* recordFailure(id) at time t
mfRecordFailure(m, id, t, o) ==
  IF ~ModelsHas(m.models, id) THEN m
  ELSE LET m1 == [m EXCEPT !.models = [i \in DOMAIN @ |->
                    IF @[i].model = id
                    THEN [@[i] EXCEPT !.failureCount = @ + 1, !.lastFailure = t]
                    ELSE @[i]]]
       IN IF ModelsGet(m1.models, id).failureCount >= o.maxFailures
          THEN updateCurrentModel([m1 EXCEPT !.models = [i \in DOMAIN @ |->
                 IF @[i].model = id THEN [@[i] EXCEPT !.healthy = FALSE] ELSE @[i]]])
          ELSE m1

\* checkRecovery recovering only after more than recoveryTimeout
checkRecoveryLate(m, t, o) ==
  IF ~o.autoRecover THEN m
  ELSE updateCurrentModel([m EXCEPT !.models = [i \in DOMAIN @ |->
         IF ~@[i].healthy /\ @[i].lastFailure # 0
            /\ t - @[i].lastFailure > o.recoveryTimeout
         THEN [@[i] EXCEPT !.healthy = TRUE, !.failureCount = 0]
         ELSE @[i]]])

\* checkRecovery() at time t
checkRecovery(m, t, o) ==
  IF ~o.autoRecover THEN m
  ELSE updateCurrentModel([m EXCEPT !.models = [i \in DOMAIN @ |->
         IF ~@[i].healthy /\ @[i].lastFailure # 0
            /\ t - @[i].lastFailure >= o.recoveryTimeout
         THEN [@[i] EXCEPT !.healthy = TRUE, !.failureCount = 0]
         ELSE @[i]]])

\* getModelStatuses()
getModelStatuses(m) ==
  LET sorted == SortByPriority(m.models)
  IN [i \in DOMAIN sorted |->
       [model |-> sorted[i].model, priority |-> sorted[i].priority,
        healthy |-> sorted[i].healthy, failureCount |-> sorted[i].failureCount,
        isCurrent |-> sorted[i].model = m.currentModel]]

\* forceHealthy(id)
forceHealthy(m, id) ==
  IF ModelsHas(m.models, id)
  THEN updateCurrentModel([m EXCEPT !.models = [i \in DOMAIN @ |->
         IF @[i].model = id THEN [@[i] EXCEPT !.healthy = TRUE, !.failureCount = 0]
         ELSE @[i]]])
  ELSE m

\* forceUnhealthy(id)
forceUnhealthy(m, id) ==
  IF ModelsHas(m.models, id)
  THEN updateCurrentModel([m EXCEPT !.models = [i \in DOMAIN @ |->
         IF @[i].model = id THEN [@[i] EXCEPT !.healthy = FALSE] ELSE @[i]]])
  ELSE m

\* reset()
mfReset(m) ==
  updateCurrentModel([m EXCEPT !.models = [i \in DOMAIN @ |->
    [@[i] EXCEPT !.healthy = TRUE, !.failureCount = 0, !.lastFailure = 0]]])

\* a value thrown by fn: an Error or not, its status and statusCode
\* properties (0 when absent) and its message, String(value) for a non-Error
Thrown(isError, status, statusCode, msg) ==
  [isError |-> isError, status |-> status, statusCode |-> statusCode, msg |-> msg]

NoError == Thrown(FALSE, 0, 0, "none")

\* the values fn rejects with
ThrownValues ==
  { Thrown(TRUE, 0, 0, "Failed"),
    Thrown(TRUE, 404, 0, "Failed"),
    Thrown(TRUE, 429, 0, "Failed"),
    Thrown(TRUE, 500, 404, "Failed"),
    Thrown(TRUE, 0, 400, "Failed"),
    Thrown(FALSE, 404, 0, "[object Object]") }

\* new Error(String(error))
NewError(msg) == Thrown(TRUE, 0, 0, msg)

\* getErrorStatus(error): status || statusCode
getErrorStatus(error) == IF error.status # 0 THEN error.status ELSE error.statusCode

\* shouldFallback without the exception of 429
shouldFallbackNo429(error) ==
  IF ~error.isError THEN TRUE
  ELSE LET status == getErrorStatus(error)
       IN ~(status # 0 /\ status >= 400 /\ status < 500)

\* shouldFallback(error)
shouldFallback(error) ==
  IF ~error.isError THEN TRUE
  ELSE LET status == getErrorStatus(error)
       IN ~(status # 0 /\ status >= 400 /\ status < 500 /\ status # 429)

\* how an executeWithFallback call settles
NoOutcome == [kind |-> "none", model |-> NoModel, result |-> NoModel, error |-> NoError]

Rejected(error) ==
  [kind |-> "rejected", model |-> NoModel, result |-> NoModel, error |-> error]

\* fn(model) resolves with a value that names the call that produced it
ResultOf(model) == model

\* an executeWithFallback call: where it is, its sortedModels and the models
\* fn was invoked with so far.  lastError is assigned in every catch before
\* it is read, so it is not kept across an await.
\* the executeWithFallback calls that can be pending together
FallbackRuns == {1}

NoRun == [pc |-> "idle", sortedModels |-> <<>>, tried |-> <<>>]

\* what an operation of the manager leaves in mfObs
MFObs(op, ret) == [op |-> op, ret |-> ret]

\* what a step of executeWithFallback leaves in mfObs: the call, the model
\* whose fn settled, the value thrown, how the call settled (if it did), the
\* models tried and the failure count of the model before the step
MFRunObs(op, r, sortedModels, model, error, outcome) ==
  [op |-> op, run |-> r, sortedModels |-> sortedModels, model |-> model,
   error |-> error, outcome |-> outcome,
   preTried |-> mfRuns[r].tried,
   preCount |-> IF ModelsHas(mf.models, model)
                THEN ModelsGet(mf.models, model).failureCount ELSE 0,
   registered |-> ModelsHas(mf.models, model)]

\* addModel(config)
MFAddModel(config) ==
  /\ mf' = addModel(mf, config)
  /\ mfObs' = MFObs("void", "void")
  /\ UNCHANGED <<now, cacheVars, cbVars, mfOpts, mfRuns, rlVars, hcVars>>

\* removeModel(id)
MFRemoveModel(id) ==
  /\ mf' = removeModel(mf, id)
  /\ mfObs' = MFObs("void", "void")
  /\ UNCHANGED <<now, cacheVars, cbVars, mfOpts, mfRuns, rlVars, hcVars>>

\* the models that are unhealthy in m and healthy in m2
Recovered(m, m2) ==
  {id \in ModelIds : /\ ModelsHas(m.models, id) /\ ~ModelsGet(m.models, id).healthy
                     /\ ModelsHas(m2.models, id) /\ ModelsGet(m2.models, id).healthy}

\* getCurrentModel()
MFGetCurrentModel ==
  /\ mf' = checkRecovery(mf, now, mfOpts)
  /\ mfObs' = [op |-> "getCurrentModel", ret |-> mf'.currentModel,
               recovered |-> Recovered(mf, mf')]
  /\ UNCHANGED <<now, cacheVars, cbVars, mfOpts, mfRuns, rlVars, hcVars>>

\* getModelStatuses()
MFGetModelStatuses ==
  /\ mfObs' = MFObs("getModelStatuses", getModelStatuses(mf))
  /\ UNCHANGED <<now, cacheVars, cbVars, mf, mfOpts, mfRuns, rlVars, hcVars>>

\* recordSuccess(id)
MFRecordSuccess(id) ==
  /\ mf' = mfRecordSuccess(mf, id)
  /\ mfObs' = MFObs("void", "void")
  /\ UNCHANGED <<now, cacheVars, cbVars, mfOpts, mfRuns, rlVars, hcVars>>

\* the failure count of id has room for one more
MFRoom(id) ==
  ModelsHas(mf.models, id) => ModelsGet(mf.models, id).failureCount < mfOpts.maxFailures

\* recordFailure(id)
MFRecordFailure(id) ==
  /\ MFRoom(id)
  /\ mf' = mfRecordFailure(mf, id, now, mfOpts)
  /\ mfObs' = MFObs("void", "void")
  /\ UNCHANGED <<now, cacheVars, cbVars, mfOpts, mfRuns, rlVars, hcVars>>

\* forceHealthy(id)
MFForceHealthy(id) ==
  /\ mf' = forceHealthy(mf, id)
  /\ mfObs' = MFObs("void", "void")
  /\ UNCHANGED <<now, cacheVars, cbVars, mfOpts, mfRuns, rlVars, hcVars>>

\* forceUnhealthy(id)
MFForceUnhealthy(id) ==
  /\ mf' = forceUnhealthy(mf, id)
  /\ mfObs' = MFObs("void", "void")
  /\ UNCHANGED <<now, cacheVars, cbVars, mfOpts, mfRuns, rlVars, hcVars>>

\* reset()
MFReset ==
  /\ mf' = mfReset(mf)
  /\ mfObs' = MFObs("void", "void")
  /\ UNCHANGED <<now, cacheVars, cbVars, mfOpts, mfRuns, rlVars, hcVars>>

\* executeWithFallback(fn) up to its first await: throws when no model is
\* healthy, else invokes fn with the first of sortedModels
MFExecute(r) ==
  /\ mfRuns[r].pc = "idle"
  /\ LET sorted == SortByPriority(FilterHealthy(mf.models))
         sortedModels == [i \in DOMAIN sorted |-> sorted[i].model]
     IN IF Len(sortedModels) = 0
        THEN /\ mfRuns' = mfRuns
             /\ mfObs' = MFRunObs("executeWithFallback", r, sortedModels, NoModel, NoError,
                                  Rejected(NewError("No healthy models available")))
        ELSE /\ mfRuns' = [mfRuns EXCEPT ![r] =
                  [pc |-> "awaiting", sortedModels |-> sortedModels,
                   tried |-> <<sortedModels[1]>>]]
             /\ mfObs' = MFRunObs("executeWithFallback", r, sortedModels, NoModel, NoError,
                                  NoOutcome)
  /\ UNCHANGED <<now, cacheVars, cbVars, mf, mfOpts, rlVars, hcVars>>

\* executeWithFallback(fn) after `await fn(model)` resolved
MFFnResolved(r) ==
  /\ mfRuns[r].pc = "awaiting"
  /\ LET run == mfRuns[r]
         model == run.tried[Len(run.tried)]
     IN /\ mf' = mfRecordSuccess(mf, model)
        /\ mfRuns' = [mfRuns EXCEPT ![r] = NoRun]
        /\ mfObs' = MFRunObs("fnResolved", r, run.sortedModels, model, NoError,
                             [kind |-> "resolved", model |-> model,
                              result |-> ResultOf(model), error |-> NoError])
  /\ UNCHANGED <<now, cacheVars, cbVars, mfOpts, rlVars, hcVars>>

\* executeWithFallback(fn) after `await fn(model)` rejected with error: the
\* catch block, and the next turn of the loop up to its await
MFFnRejected(r, error) ==
  /\ mfRuns[r].pc = "awaiting"
  /\ LET run == mfRuns[r]
         model == run.tried[Len(run.tried)]
         lastError == IF error.isError THEN error ELSE NewError(error.msg)
     IN /\ MFRoom(model)
        /\ mf' = mfRecordFailure(mf, model, now, mfOpts)
        /\ IF ~shouldFallback(error)
           THEN /\ mfRuns' = [mfRuns EXCEPT ![r] = NoRun]
                /\ mfObs' = MFRunObs("fnRejected", r, run.sortedModels, model, error,
                                     Rejected(error))
           ELSE IF Len(run.tried) < Len(run.sortedModels)
           THEN /\ mfRuns' = [mfRuns EXCEPT ![r].tried =
                                Append(@, run.sortedModels[Len(run.tried) + 1])]
                /\ mfObs' = MFRunObs("fnRejected", r, run.sortedModels, model, error,
                                     NoOutcome)
           ELSE /\ mfRuns' = [mfRuns EXCEPT ![r] = NoRun]
                /\ mfObs' = MFRunObs("fnRejected", r, run.sortedModels, model, error,
                                     Rejected(lastError))
  /\ UNCHANGED <<now, cacheVars, cbVars, mfOpts, rlVars, hcVars>>

\* the clock of the manager advances
TickMF ==
  /\ now < MaxTimeFallback
  /\ now' = now + 1
  /\ mfObs' = NoObs
  /\ UNCHANGED <<cacheVars, cbVars, mf, mfOpts, mfRuns, rlVars, hcVars>>

----------------------------------------------------------------------------
(* RateLimiter.  The unit of time is the second and refillRate is a whole  *)
(* number of tokens per second, so that token counts and waits are whole   *)
(* numbers and the arithmetic is exact.                                    *)

\* refill() at time t
refill(b, t) ==
  LET elapsed == t - b.lastRefill
      tokensToAdd == elapsed * b.refillRate
  IN [b EXCEPT !.tokens = Min(b.maxTokens, b.tokens + tokensToAdd), !.lastRefill = t]

\* tryAcquire debiting also when the tokens do not suffice
tryAcquireAlways(b, n, t) ==
  LET b1 == refill(b, t)
  IN [b |-> [b1 EXCEPT !.tokens = @ - n], ret |-> TRUE]

\* tryAcquire(n) at time t: the limiter after it and what it returns
tryAcquire(b, n, t) ==
  LET b1 == refill(b, t)
  IN IF b1.tokens >= n
     THEN [b |-> [b1 EXCEPT !.tokens = @ - n], ret |-> TRUE]
     ELSE [b |-> b1, ret |-> FALSE]

\* acquire with no wait for the shortfall
WaitForNothing(b, n) == 0

\* the wait of acquire and getWaitTime, (needed / refillRate) * 1000 ms, in seconds
WaitFor(b, n) == (n - b.tokens) \div b.refillRate

\* getWaitTime(n) at time t
getWaitTime(b, n, t) ==
  LET b1 == refill(b, t)
  IN [b |-> b1, ret |-> IF b1.tokens >= n THEN 0 ELSE WaitFor(b1, n)]

\* getAvailableTokens() at time t
getAvailableTokens(b, t) == [b |-> refill(b, t), ret |-> refill(b, t).tokens]

\* getStats() at time t; utilizationPercent is the pair
\* (maxTokens - tokens) / maxTokens
rlGetStats(b, t) ==
  LET b1 == refill(b, t)
  IN [b |-> b1,
      ret |-> [availableTokens |-> b1.tokens, maxTokens |-> b1.maxTokens,
               refillRate |-> b1.refillRate,
               utilizationPercent |-> <<b1.maxTokens - b1.tokens, b1.maxTokens>>]]

\* reset() at time t
rlReset(b, t) == [b EXCEPT !.tokens = b.maxTokens, !.lastRefill = t]

\* setOptions({maxTokens})
rlSetOptions(b, maxTokens) ==
  [b EXCEPT !.maxTokens = maxTokens, !.tokens = Min(b.tokens, maxTokens)]

\* acquire(n) at time t up to its await: the limiter after it and the wait
\* of its timer, 0 when it returns without waiting
acquire(b, n, t) ==
  LET b1 == refill(b, t)
  IN IF b1.tokens >= n
     THEN [b |-> [b1 EXCEPT !.tokens = @ - n], waits |-> FALSE, wait |-> 0]
     ELSE [b |-> b1, waits |-> TRUE, wait |-> WaitFor(b1, n)]

\* acquire(n) after its timer, at time t
acquireResume(b, n, t) == [refill(b, t) EXCEPT !.tokens = @ - n]

\* an acquire call: where it is, the tokens it asks for, when its timer is
\* due and whether it is the acquire of withRateLimit
NoWait == [pc |-> "idle", n |-> 0, wakeAt |-> 0, fn |-> FALSE]

\* the callers of acquire and withRateLimit
Waiters == {1, 2}

\* the token counts a call may ask for
Amounts == 1..rl.maxTokens

\* tryAcquire(n)
RLTryAcquire(n) ==
  /\ rl' = tryAcquire(rl, n, now).b
  /\ rlAcct' = IF tryAcquire(rl, n, now).ret THEN rlAcct - n ELSE rlAcct
  /\ UNCHANGED <<now, cacheVars, cbVars, mfVars, rlWaits, hcVars>>

\* getWaitTime(n)
RLGetWaitTime(n) ==
  /\ rl' = getWaitTime(rl, n, now).b
  /\ UNCHANGED <<now, cacheVars, cbVars, mfVars, rlWaits, rlAcct, hcVars>>

\* getAvailableTokens()
RLGetAvailableTokens ==
  /\ rl' = getAvailableTokens(rl, now).b
  /\ UNCHANGED <<now, cacheVars, cbVars, mfVars, rlWaits, rlAcct, hcVars>>

\* reset()
RLReset ==
  /\ rl' = rlReset(rl, now)
  /\ rlAcct' = rl'.tokens
  /\ UNCHANGED <<now, cacheVars, cbVars, mfVars, rlWaits, hcVars>>

\* setOptions({maxTokens})
RLSetOptions(maxTokens) ==
  /\ rl' = rlSetOptions(rl, maxTokens)
  /\ UNCHANGED <<now, cacheVars, cbVars, mfVars, rlWaits, rlAcct, hcVars>>

\* acquire(n), or withRateLimit(limiter, fn, n), up to its await: debits and
\* returns when the tokens suffice, else starts the timer of the shortfall
RLAcquire(w, n, fn) ==
  /\ rlWaits[w].pc = "idle"
  /\ now + acquire(rl, n, now).wait <= MaxTimeLimiter
  /\ rl' = acquire(rl, n, now).b
  /\ rlWaits' = [rlWaits EXCEPT ![w] =
       [pc |-> IF acquire(rl, n, now).waits THEN "waiting" ELSE "resolved",
        n |-> n, wakeAt |-> now + acquire(rl, n, now).wait, fn |-> fn]]
  /\ rlAcct' = IF acquire(rl, n, now).waits THEN rlAcct ELSE rlAcct - n
  /\ UNCHANGED <<now, cacheVars, cbVars, mfVars, hcVars>>

\* acquire(n) after its timer fired: refills and debits
RLTimer(w) ==
  /\ rlWaits[w].pc = "waiting"
  /\ now >= rlWaits[w].wakeAt
  /\ rl' = acquireResume(rl, rlWaits[w].n, now)
  /\ rlWaits' = [rlWaits EXCEPT ![w].pc = "resolved"]
  /\ rlAcct' = rlAcct - rlWaits[w].n
  /\ UNCHANGED <<now, cacheVars, cbVars, mfVars, hcVars>>

\* the caller of acquire continues; withRateLimit invokes fn
RLContinue(w) ==
  /\ rlWaits[w].pc = "resolved"
  /\ rlWaits' = [rlWaits EXCEPT ![w] = NoWait]
  /\ UNCHANGED <<now, cacheVars, cbVars, mfVars, rl, rlAcct, hcVars>>

\* the clock of the limiter advances; the bucket's budget grows at its rate
TickRL ==
  /\ now < MaxTimeLimiter
  /\ now' = now + 1
  /\ rlAcct' = rlAcct + rl.refillRate
  /\ UNCHANGED <<cacheVars, cbVars, mfVars, rl, rlWaits, hcVars>>

----------------------------------------------------------------------------
(* ResponseCache used directly: the keys are strings, or objects that      *)
(* hashKey turns into the cache key.                                       *)

StringKeys == {"s1", "s2"}
RecordKeys == {"o1", "o2"}
Keys == StringKeys \cup RecordKeys

\* the objects used as keys: they differ in a nested property only
KeyObject(k) == IF k = "o1" THEN getCacheKey(Request(1)) ELSE getCacheKey(Request(2))

\* typeof key === 'string' ? key : this.hashKey(key)
CacheKey == [k \in Keys |-> IF k \in StringKeys THEN <<k>> ELSE hashKey(KeyObject(k))]

\* the values stored
CValue(n) == [ok |-> TRUE, cands |-> 1, tag |-> n]
CValues == {CValue(1), CValue(2)}

\* the ttl arguments of set: left out, or 0
TtlArgs == {<<>>, <<0>>}

NoWrite == [set |-> FALSE, value |-> NoValue, timestamp |-> 0, ttl |-> 0]

\* nothing was written
NoWrites == [last |-> [k \in Keys |-> NoWrite], touched |-> <<>>]

\* key k is touched: it becomes the most recently used
Touch(touched, k) == Append(SelectSeq(touched, LAMBDA j : j # k), k)

\* written, once the keys whose entry is no longer in the cache C are forgotten
Sync(w, C) ==
  [last |-> [k \in Keys |-> IF MapHas(C.map, CacheKey[k]) THEN w.last[k] ELSE NoWrite],
   touched |-> SelectSeq(w.touched, LAMBDA j : MapHas(C.map, CacheKey[j]))]

\* set(key, value, ttl)
RCSet(k, value, ttl) ==
  /\ cache' = CacheSetTtl(cache, CacheKey[k], value, ttl, now)
  /\ written' = Sync(IF cache.opts.enabled
                     THEN [last |-> [written.last EXCEPT ![k] =
                                       [set |-> TRUE, value |-> value, timestamp |-> now,
                                        ttl |-> IF ttl = <<>> THEN cache.opts.ttl ELSE ttl[1]]],
                           touched |-> Touch(written.touched, k)]
                     ELSE written, cache')
  /\ UNCHANGED <<now, ccg, inFlight, promises, calls, cbVars, mfVars, rlVars, hcVars>>

\* a get(key) or has(key) that returns a value touches the key
Touched(k) ==
  IF CacheGet(cache, CacheKey[k], now).hit
  THEN [written EXCEPT !.touched = Touch(written.touched, k)]
  ELSE written

\* get(key)
RCGet(k) ==
  /\ cache' = CacheGet(cache, CacheKey[k], now).c
  /\ written' = Sync(Touched(k), cache')
  /\ UNCHANGED <<now, ccg, inFlight, promises, calls, cbVars, mfVars, rlVars, hcVars>>

\* has(key)
RCHas(k) ==
  /\ cache' = CacheHas(cache, CacheKey[k], now).c
  /\ written' = Sync(Touched(k), cache')
  /\ UNCHANGED <<now, ccg, inFlight, promises, calls, cbVars, mfVars, rlVars, hcVars>>

\* cleanup()
RCCleanup ==
  /\ cache' = CacheCleanup(cache, now)
  /\ written' = Sync(written, cache')
  /\ UNCHANGED <<now, ccg, inFlight, promises, calls, cbVars, mfVars, rlVars, hcVars>>

\* clear()
RCClear ==
  /\ cache' = CacheClear(cache)
  /\ written' = Sync(written, cache')
  /\ UNCHANGED <<now, ccg, inFlight, promises, calls, cbVars, mfVars, rlVars, hcVars>>

\* setOptions(options)
RCSetOptions(options) ==
  /\ cache' = CacheSetOptions(cache, options)
  /\ written' = Sync(written, cache')
  /\ UNCHANGED <<now, ccg, inFlight, promises, calls, cbVars, mfVars, rlVars, hcVars>>

\* the clock of the cache advances
TickRC ==
  /\ now < MaxTimeCache
  /\ now' = now + 1
  /\ UNCHANGED <<cacheVars, cbVars, mfVars, rlVars, hcVars>>

----------------------------------------------------------------------------
(* HistoryCompressor.  A turn (Content) is a role and a sequence of parts; *)
(* a part is a text of len characters (cut when summarizeText has          *)
(* shortened it), a functionCall or functionResponse whose JSON has len    *)
(* characters, or another part (inline data).                              *)

Text(len) == [kind |-> "text", len |-> len, cut |-> FALSE]
ToolCall(len) == [kind |-> "call", len |-> len, cut |-> FALSE]
ToolResult(len) == [kind |-> "result", len |-> len, cut |-> FALSE]
OtherPart == [kind |-> "other", len |-> 0, cut |-> FALSE]
Turn(role, parts) == [role |-> role, parts |-> parts]

\* Math.ceil(a / b) for a >= 0, b > 0
CeilDiv(a, b) == (a + b - 1) \div b

RECURSIVE SumLen(_)
SumLen(parts) == IF parts = <<>> THEN 0 ELSE Head(parts).len + SumLen(Tail(parts))

\* estimateTokens(content)
estimateTokens(content, o) == CeilDiv(SumLen(content.parts), o.charsPerToken)

RECURSIVE TotalTokens(_, _)
TotalTokens(history, o) ==
  IF history = <<>> THEN 0
  ELSE estimateTokens(Head(history), o) + TotalTokens(Tail(history), o)

\* hasToolCalls(content)
hasToolCalls(content) ==
  \E i \in DOMAIN content.parts : content.parts[i].kind \in {"call", "result"}

\* the length of '\n...[truncated]...\n'
TruncatedLen == 19

\* summarizeText(text, maxLength), for a text part
summarizeText(part, maxLength) ==
  IF part.len <= maxLength THEN part
  ELSE LET half == maxLength \div 2 - 10
       IN [part EXCEPT !.len = half + TruncatedLen + half, !.cut = TRUE]

AggressiveChars == 500
LightChars == 2000

\* compressContent(content, aggressive)
RECURSIVE CompressParts(_, _, _)
CompressParts(parts, aggressive, o) ==
  IF parts = <<>> THEN <<>>
  ELSE LET part == Head(parts)
           rest == CompressParts(Tail(parts), aggressive, o)
       IN IF part.kind \in {"call", "result"}
          THEN IF o.preserveToolCalls \/ ~aggressive THEN <<part>> \o rest ELSE rest
          ELSE IF part.kind = "text" /\ part.len > 0
          THEN <<summarizeText(part, IF aggressive THEN AggressiveChars ELSE LightChars)>> \o rest
          ELSE <<part>> \o rest

compressContent(content, aggressive, o) ==
  [content EXCEPT !.parts = CompressParts(content.parts, aggressive, o)]

\* the length of '[Earlier conversation compressed for context]'
MarkerLen == 45
compressionMarker == Turn("user", <<Text(MarkerLen)>>)

\* the loop over the older turns, from turn i on, with the turns kept so far
\* and the tokens they use
RECURSIVE OlderLoop(_, _, _, _, _, _, _)
OlderLoop(history, i, preserveFrom, olderBudget, compressed, olderTokensUsed, o) ==
  IF i > preserveFrom THEN compressed
  ELSE LET content == history[i]
           originalTokens == estimateTokens(content, o)
       IN IF olderTokensUsed + originalTokens > olderBudget
          THEN IF ~hasToolCalls(content) /\ ~o.preserveToolCalls
               THEN OlderLoop(history, i + 1, preserveFrom, olderBudget, compressed,
                              olderTokensUsed, o)
               ELSE LET compressedContent == compressContent(content, TRUE, o)
                        newTokens == estimateTokens(compressedContent, o)
                    IN IF olderTokensUsed + newTokens <= olderBudget
                       THEN OlderLoop(history, i + 1, preserveFrom, olderBudget,
                                      Append(compressed, compressedContent),
                                      olderTokensUsed + newTokens, o)
                       ELSE OlderLoop(history, i + 1, preserveFrom, olderBudget, compressed,
                                      olderTokensUsed, o)
          ELSE LET compressedContent == compressContent(content, FALSE, o)
               IN OlderLoop(history, i + 1, preserveFrom, olderBudget,
                            Append(compressed, compressedContent),
                            olderTokensUsed + estimateTokens(compressedContent, o), o)

\* compress that shortens every turn, the recent ones too
compressEveryTurn(history, o) ==
  [i \in DOMAIN history |-> compressContent(history[i], TRUE, o)]

\* compress that prepends the marker and drops nothing
compressMarking(history, o) == <<compressionMarker>> \o history

\* compress(history)
compress(history, o) ==
  IF Len(history) = 0 THEN <<>>
  ELSE IF TotalTokens(history, o) <= o.maxTokens THEN history
  ELSE LET preserveFrom == Max(0, Len(history) - o.preserveRecentTurns * 2)
           recentTurns == SubSeq(history, preserveFrom + 1, Len(history))
           recentTokens == TotalTokens(recentTurns, o)
           olderBudget == Max(0, o.maxTokens - recentTokens)
           compressed == OlderLoop(history, 1, preserveFrom, olderBudget, <<>>, 0, o)
       IN (IF Len(compressed) < preserveFrom /\ preserveFrom > 0
           THEN <<compressionMarker>> \o compressed ELSE compressed) \o recentTurns

\* needsCompression that never asks for compression
needsCompressionNever(history, o) == FALSE

\* needsCompression(history): the running total exceeds maxTokens at some turn
needsCompression(history, o) ==
  \E n \in 1..Len(history) : TotalTokens(SubSeq(history, 1, n), o) > o.maxTokens

\* getCompressionStats(original, compressed)
getCompressionStats(original, compressed, o) ==
  [originalTokens |-> TotalTokens(original, o),
   compressedTokens |-> TotalTokens(compressed, o),
   turnsRemoved |-> Len(original) - Len(compressed)]

\* the turns the chat appends to its history
Turns ==
  {Turn("user", <<Text(40)>>),
   Turn("model", <<Text(2400)>>),
   Turn("user", <<Text(600), OtherPart>>),
   Turn("model", <<ToolCall(80)>>),
   Turn("user", <<ToolResult(200)>>),
   Turn("model", <<Text(600), ToolCall(80)>>)}

\* the options of the compressor
CompressionOptions ==
  [maxTokens : {150, 400}, preserveRecentTurns : {0, 1}, preserveToolCalls : BOOLEAN,
   charsPerToken : {4}]

\* a turn is appended to the history
HCAppend(turn) ==
  /\ Len(hc.history) < MaxTurns
  /\ hc' = [hc EXCEPT !.history = Append(@, turn)]
  /\ UNCHANGED <<now, cacheVars, cbVars, mfVars, rlVars>>

\* the chat replaces its history by compress(history)
HCCompress ==
  /\ hc' = [hc EXCEPT !.history = compress(hc.history, hc.options)]
  /\ UNCHANGED <<now, cacheVars, cbVars, mfVars, rlVars>>

\* setOptions(options)
HCSetOptions(options) ==
  /\ hc' = [hc EXCEPT !.options = options]
  /\ UNCHANGED <<now, cacheVars, cbVars, mfVars, rlVars>>

----------------------------------------------------------------------------
(* Initial states of the components.                                       *)

InitGenerator == ccg = Generator(<<>>)

InitCaching ==
  /\ cache = NewCache(DefaultCacheOptions)
  /\ inFlight = EmptyMap
  /\ promises = <<>>
  /\ calls = [c \in Callers |-> NoCall]
  /\ written = NoWrites

NewBreaker(t) ==
  [state |-> "closed", failures |-> <<>>, successes |-> <<>>, lastFailure |-> 0,
   lastStateChange |-> t]

InitCBIdle ==
  /\ cb = NewBreaker(0)
  /\ cbOpts = [failureThreshold |-> 0, resetTimeout |-> 0, windowMs |-> 0,
               hasRate |-> FALSE, rateNum |-> 0, rateDen |-> 1]
  /\ cbRuns = 0
  /\ cbObs = NoObs
  /\ cbHist = [failures |-> <<>>, successes |-> <<>>, openedAt |-> 0, whileOpen |-> 0]
  /\ eager = NewBreaker(0)

InitMFIdle ==
  /\ mf = [models |-> <<>>, currentModel |-> NoModel]
  /\ mfOpts = [maxFailures |-> 0, recoveryTimeout |-> 0, autoRecover |-> FALSE]
  /\ mfRuns = <<>>
  /\ mfObs = NoObs

InitHCIdle == hc = [history |-> <<>>, options |-> <<>>]

InitRLIdle ==
  /\ rl = [tokens |-> 0, lastRefill |-> 0, maxTokens |-> 0, refillRate |-> 0]
  /\ rlWaits = <<>>
  /\ rlAcct = 0

----------------------------------------------------------------------------
(* The specification of RequestDeduplicator.deduplicate.                   *)

InitDedup == now = 0 /\ InitCaching /\ InitGenerator /\ InitCBIdle /\ InitMFIdle /\ InitRLIdle /\ InitHCIdle

NextDedup ==
  \/ \E c \in Callers, r \in Requests : DedupCall(c, r)
  \/ \E p \in 1..MaxPromises, ok \in BOOLEAN, n \in 0..1 : Settle(p, ok, n)
  \/ \E c \in Callers : OwnerCont(c)
  \/ \E c \in Callers : SharedCont(c)

SpecDedup == InitDedup /\ [][NextDedup]_vars

----------------------------------------------------------------------------
(* The specification of CachingContentGenerator.generateContent.           *)

\* the clock of the caching generator advances
TickCaching ==
  /\ now < MaxTimeCaching
  /\ now' = now + 1
  /\ UNCHANGED <<cacheVars, cbVars, mfVars, rlVars, hcVars>>

InitCCG ==
  /\ now = 0
  /\ InitCaching
  /\ \E enableDeduplication \in {<<>>, <<TRUE>>, <<FALSE>>} :
       ccg = Generator(enableDeduplication)
  /\ InitCBIdle /\ InitMFIdle /\ InitRLIdle /\ InitHCIdle

NextCCG ==
  \/ \E c \in GenCallers, r \in Requests : GenCall(c, r)
  \/ \E p \in 1..MaxPromises, ok \in BOOLEAN, n \in 0..1 : Settle(p, ok, n)
  \/ \E c \in GenCallers : OwnerCont(c)
  \/ \E c \in GenCallers : SharedCont(c)
  \/ \E c \in GenCallers : GenCont(c)
  \/ GenCleanup
  \/ TickCaching

SpecCCG == InitCCG /\ [][NextCCG]_vars

----------------------------------------------------------------------------
(* C1: the calls of deduplicate with one fingerprint that are issued while *)
(* an invocation of the executor for it is pending do not invoke the       *)
(* executor again (at most one invocation is pending, and they are handed  *)
(* its promise), and every caller settles with the outcome of that one     *)
(* invocation: its value, or its error.                                    *)
DedupCoalesces ==
  \A c \in Callers :
    /\ calls[c].pc # "idle" =>
         /\ Cardinality(calls[c].pend) <= 1
         /\ calls[c].pend # {} => calls[c].prom \in calls[c].pend /\ ~calls[c].owner
    /\ calls[c].pc = "settled" =>
         /\ promises[calls[c].prom].st # "pending"
         /\ calls[c].ret = Outcome(calls[c].prom)

\* three callers of one fingerprint have settled with the error of the one
\* invocation of the executor
DedupCoalescesWitness ==
  /\ Len(promises) = 1
  /\ promises[1].st = "rejected"
  /\ \A c \in Callers : calls[c].pc = "settled" /\ calls[c].prom = 1 /\ calls[c].req = 1
  /\ Cardinality({c \in Callers : calls[c].owner}) = 1

----------------------------------------------------------------------------
\* the fields of a request that getCacheKey reads agree
SameCacheFields(a, b) ==
  /\ a.model = b.model
  /\ a.contents = b.contents
  /\ \A n \in {"temperature", "topK", "topP", "maxOutputTokens"} :
       GetProp(a.config, n) = GetProp(b.config, n)

(* C2: the identical generateContent calls issued while a call of the      *)
(* wrapped generator for the request is pending do not call the wrapped    *)
(* generator again and receive the response of that one call; and a call   *)
(* issued within the ttl after an identical call completed with a          *)
(* response that has a candidate is answered from the cache.               *)
GenCoalescesAndCaches ==
  \A c \in GenCallers :
    /\ calls[c].pc # "idle" /\ calls[c].pend # {} =>
         /\ ~calls[c].owner
         /\ calls[c].pc = "done" => calls[c].ret.tag \in calls[c].pend
    /\ calls[c].pc # "idle" /\ calls[c].warm => calls[c].hit

(* C3: generateContent answers from the cache only with a response that    *)
(* was produced for a request with the same model, contents and            *)
(* temperature/topK/topP/maxOutputTokens: the cache key set(k1, v) stored  *)
(* v under is found by get(k2) only for structurally identical k1, k2.     *)
CachedResponseIsForTheRequest ==
  \A c \in GenCallers :
    calls[c].pc = "done" /\ calls[c].hit =>
      SameCacheFields(Request(calls[c].req), Request(promises[calls[c].ret.tag].req))

----------------------------------------------------------------------------
(* The specification of CircuitBreaker.                                    *)

CBThreshold == 3
CBResetTimeout == 2
CBWindow == 3
RateNum == 1
RateDen == 2

InitCB ==
  /\ now = 0
  /\ InitCaching
  /\ InitGenerator
  /\ InitMFIdle
  /\ InitRLIdle
  /\ InitHCIdle
  /\ cb = NewBreaker(0)
  /\ \E hasRate \in BOOLEAN :
       cbOpts = [failureThreshold |-> CBThreshold, resetTimeout |-> CBResetTimeout,
                 windowMs |-> CBWindow, hasRate |-> hasRate,
                 rateNum |-> RateNum, rateDen |-> RateDen]
  /\ cbRuns = 0
  /\ cbObs = NoObs
  /\ cbHist = [failures |-> <<>>, successes |-> <<>>, openedAt |-> 0, whileOpen |-> 0]
  /\ eager = NewBreaker(0)

NextCB ==
  \/ CBGetState
  \/ CBIsAllowed
  \/ CBRecordSuccess
  \/ CBRecordFailure
  \/ CBExecute
  \/ \E ok \in BOOLEAN : CBExecuteSettle(ok)
  \/ TickCB

SpecCB == InitCB /\ [][NextCB]_vars

\* the number of the records in seq made within the last windowMs before t
InWindow(seq, t) == Len(SelectSeq(seq, LAMBDA x : t - x < cbOpts.windowMs))

\* the trip condition on f failures and n successes
TripCondition(f, n) ==
  \/ f >= cbOpts.failureThreshold
  \/ /\ cbOpts.hasRate
     /\ f + n >= cbOpts.failureThreshold
     /\ n * cbOpts.rateDen < cbOpts.rateNum * (f + n)

\* the cooldown of the breaker that opened at openedAt is over at t
CooldownOver(openedAt, t) == t - openedAt >= cbOpts.resetTimeout

CBCooldown ==
  cbObs.op \in {"getState", "isAllowed"} /\ cbObs.pre.state = "open" =>
    IF CooldownOver(cbObs.preOpenedAt, cbObs.at)
    THEN cbObs.ret = (IF cbObs.op = "getState" THEN "half_open" ELSE TRUE)
    ELSE cbObs.ret = (IF cbObs.op = "getState" THEN "open" ELSE FALSE)

\* the first read after the cooldown, with a record made while OPEN
CBCooldownWitness ==
  /\ cbObs.op = "getState" /\ cbObs.pre.state = "open"
  /\ cbObs.ret = "half_open"
  /\ cbHist.whileOpen > 0
  /\ cbObs.at = cbObs.preOpenedAt + cbOpts.resetTimeout

(* C6: in HALF_OPEN one recordSuccess() closes the breaker and clears all  *)
(* records; one recordFailure() opens it, however few failures are in the  *)
(* window, and the cooldown starts again at that instant.                  *)
CBProbe ==
  /\ cbObs.op = "recordSuccess" /\ cbObs.pre.state = "half_open" =>
       cb.state = "closed" /\ cb.failures = <<>> /\ cb.successes = <<>>
  /\ cbObs.op = "recordFailure" /\ cbObs.pre.state = "half_open" =>
       /\ cb.state = "open"
       /\ cb.lastStateChange = cbObs.at
       /\ getTimeUntilReset(cb, cbObs.at, cbOpts) = cbOpts.resetTimeout

\* a failure in HALF_OPEN with fewer failures in the window than the threshold
CBProbeWitness ==
  /\ cbObs.op = "recordFailure" /\ cbObs.pre.state = "half_open"
  /\ cb.state = "open"
  /\ Len(cb.failures) < cbOpts.failureThreshold
  /\ ~TripCondition(Len(cb.failures), Len(cb.successes))

(* C7: execute(fn) invokes fn exactly when the breaker admits requests at  *)
(* the call (it is not OPEN, or its cooldown is over); on an OPEN breaker  *)
(* with cooldown left it throws CircuitOpenError with timeUntilReset =     *)
(* resetTimeout - (now - lastStateChange) > 0, does not invoke fn and      *)
(* records nothing.                                                        *)
CBExecuteGate ==
  cbObs.op = "execute" =>
    LET admits == cbObs.pre.state # "open" \/ CooldownOver(cbObs.preOpenedAt, cbObs.at)
    IN /\ cbObs.ret.invoked <=> admits
       /\ ~admits =>
            /\ cbObs.ret.error = "CircuitOpenError"
            /\ cbObs.ret.timeUntilReset
                 = cbOpts.resetTimeout - (cbObs.at - cbObs.pre.lastStateChange)
            /\ cbObs.ret.timeUntilReset > 0
            /\ cb.failures = cbObs.pre.failures /\ cb.successes = cbObs.pre.successes
            /\ cb.state = "open"

\* execute is refused with part of the cooldown left, after a failure was
\* recorded while OPEN
CBExecuteGateWitness ==
  /\ cbObs.op = "execute"
  /\ cbObs.ret.error = "CircuitOpenError"
  /\ cbObs.ret.timeUntilReset < cbOpts.resetTimeout
  /\ cbObs.pre.lastFailure > cbObs.pre.lastStateChange

----------------------------------------------------------------------------
(* The specification of ModelFallbackManager.                              *)

\* the options of the manager: maxFailures and recoveryTimeout
MFMaxFailures == 2
MFRecoveryTimeout == 1

InitMF ==
  /\ now = 1
  /\ InitCaching
  /\ InitGenerator
  /\ InitCBIdle
  /\ InitRLIdle
  /\ InitHCIdle
  /\ mf = [models |-> <<>>, currentModel |-> NoModel]
  /\ \E autoRecover \in BOOLEAN :
       mfOpts = [maxFailures |-> MFMaxFailures, recoveryTimeout |-> MFRecoveryTimeout,
                 autoRecover |-> autoRecover]
  /\ mfRuns = [r \in FallbackRuns |-> NoRun]
  /\ mfObs = NoObs

NextMF ==
  \/ \E config \in Configs : MFAddModel(config)
  \/ \E id \in ModelIds : MFRemoveModel(id)
  \/ MFGetCurrentModel
  \/ MFGetModelStatuses
  \/ \E id \in ModelIds : MFRecordSuccess(id)
  \/ \E id \in ModelIds : MFRecordFailure(id)
  \/ \E id \in ModelIds : MFForceHealthy(id)
  \/ \E id \in ModelIds : MFForceUnhealthy(id)
  \/ MFReset
  \/ \E r \in FallbackRuns : MFExecute(r)
  \/ \E r \in FallbackRuns : MFFnResolved(r)
  \/ \E r \in FallbackRuns, error \in ThrownValues : MFFnRejected(r, error)
  \/ TickMF

SpecMF == InitMF /\ [][NextMF]_vars

\* the healthy registered models, and those of them of the lowest priority value
HealthyIds == {c.model : c \in {mf.models[i] : i \in {j \in DOMAIN mf.models : mf.models[j].healthy}}}

LowestHealthy ==
  {a \in HealthyIds : \A b \in HealthyIds :
     ModelsGet(mf.models, a).priority <= ModelsGet(mf.models, b).priority}

\* what getCurrentModel() must return
BestModels == IF HealthyIds = {} THEN {NoModel} ELSE LowestHealthy

(* C8: getCurrentModel() returns the registered healthy model of the       *)
(* lowest priority value, or null when no registered model is healthy, and *)
(* getModelStatuses() marks exactly that model as isCurrent, after any     *)
(* sequence of operations, with autoRecover enabled or disabled.           *)
CurrentModelIsLowestHealthy ==
  /\ mfObs.op = "getCurrentModel" => mfObs.ret \in BestModels
  /\ mfObs.op = "getModelStatuses" =>
       \E best \in BestModels :
         \A i \in DOMAIN mfObs.ret : mfObs.ret[i].isCurrent <=> mfObs.ret[i].model = best

\* the position of a registered model in the order of registration
PositionOf(id) == CHOOSE i \in DOMAIN mf.models : mf.models[i].model = id

\* a is tried before b: by priority (strictly ascending), or by priority and,
\* among equal priorities, by registration
TriedBefore(a, b, strict) ==
  LET pa == ModelsGet(mf.models, a).priority
      pb == ModelsGet(mf.models, b).priority
  IN pa < pb \/ (~strict /\ pa = pb /\ PositionOf(a) < PositionOf(b))

\* the error executeWithFallback rejects with when every model failed:
\* the value thrown last, or that value unless it is no Error, which is
\* wrapped into new Error(String(value))
ExhaustedWith(error, asThrown) ==
  IF asThrown \/ error.isError THEN error ELSE NewError(error.msg)

\* a status of a client error other than 429
ClientStatus(status) == status >= 400 /\ status < 500 /\ status # 429

\* the thrown value exposes a client status as status or as statusCode
TerminalAsStated(error) == ClientStatus(error.status) \/ ClientStatus(error.statusCode)

\* the thrown value is an Error whose status, or whose statusCode when it has
\* no (truthy) status, is a client status
TerminalOfError(error) ==
  /\ error.isError
  /\ IF error.status # 0 THEN ClientStatus(error.status) ELSE ClientStatus(error.statusCode)

\* executeWithFallback: the order of the attempts, the success, the
\* exhaustion and the call without a healthy model
ExecuteContract(strict) ==
  /\ \A r \in FallbackRuns :
       LET run == mfRuns[r]
       IN /\ \A i, j \in DOMAIN run.sortedModels : i < j => run.sortedModels[i] # run.sortedModels[j]
          /\ run.pc = "awaiting" =>
               /\ Len(run.tried) >= 1 /\ Len(run.tried) <= Len(run.sortedModels)
               /\ run.tried = SubSeq(run.sortedModels, 1, Len(run.tried))
  /\ mfObs.op = "executeWithFallback" =>
       LET s == mfObs.sortedModels
           run == mfRuns[mfObs.run]
       IN /\ {s[i] : i \in DOMAIN s} = HealthyIds
          /\ \A i, j \in DOMAIN s : i < j => TriedBefore(s[i], s[j], strict)
          /\ IF HealthyIds = {}
             THEN run.pc = "idle" /\ run.tried = <<>> /\ mfObs.outcome.kind = "rejected"
             ELSE run.pc = "awaiting" /\ run.tried = <<s[1]>> /\ mfObs.outcome.kind = "none"
  /\ mfObs.op = "fnResolved" =>
       /\ mfRuns[mfObs.run].pc = "idle"
       /\ mfObs.outcome.kind = "resolved"
       /\ mfObs.outcome.model = mfObs.preTried[Len(mfObs.preTried)]
       /\ mfObs.outcome.result = ResultOf(mfObs.outcome.model)
       /\ mfObs.registered =>
            LET c == ModelsGet(mf.models, mfObs.outcome.model)
            IN c.healthy /\ c.failureCount = 0
  /\ mfObs.op = "fnRejected" /\ ~TerminalOfError(mfObs.error)
       /\ mfObs.preTried = mfObs.sortedModels =>
       /\ mfRuns[mfObs.run].pc = "idle"
       /\ mfObs.outcome = Rejected(ExhaustedWith(mfObs.error, strict))

(* C9: executeWithFallback(fn) calls fn on the models healthy at call      *)
(* start in strictly ascending priority, one at a time and each at most    *)
(* once; it stops at the first success, records it and returns the result  *)
(* with the model that produced it; when every attempt fails with an       *)
(* eligible error it rejects with the error of the last model tried; with  *)
(* no healthy model it rejects without invoking fn.                        *)
ExecuteInStrictOrder == ExecuteContract(TRUE)

(* C9, amended: the order is ascending priority with models of equal       *)
(* priority in their order of registration, and the error of the last      *)
(* model tried is wrapped into a new Error when it is not an Error.        *)
ExecuteInStableOrder == ExecuteContract(FALSE)

\* two models of equal priority were tried in their order of registration,
\* and the second succeeded
ExecuteInStableOrderWitness ==
  /\ mfObs.op = "fnResolved"
  /\ mfObs.sortedModels = <<"B", "A">> /\ mfObs.preTried = <<"B", "A">>
  /\ mfObs.outcome.model = "A"
  /\ ModelsHas(mf.models, "A") /\ ModelsHas(mf.models, "B")
  /\ ModelsGet(mf.models, "A").priority = ModelsGet(mf.models, "B").priority
  /\ PositionOf("B") < PositionOf("A")

\* executeWithFallback after fn rejected: the failure is recorded, a terminal
\* error is rethrown as it is and ends the call, any other error makes the
\* call invoke fn with the next model, if there is one
FallbackRule(asStated) ==
  mfObs.op = "fnRejected" =>
    LET error == mfObs.error
        run == mfRuns[mfObs.run]
        terminal == IF asStated THEN TerminalAsStated(error) ELSE TerminalOfError(error)
    IN /\ mfObs.registered =>
            LET c == ModelsGet(mf.models, mfObs.model)
            IN c.failureCount = mfObs.preCount + 1 /\ c.lastFailure = now
       /\ terminal =>
            /\ mfObs.outcome = Rejected(error)
            /\ run.pc = "idle"
       /\ ~terminal =>
            IF Len(mfObs.preTried) < Len(mfObs.sortedModels)
            THEN /\ mfObs.outcome.kind = "none"
                 /\ run.pc = "awaiting"
                 /\ run.tried = Append(mfObs.preTried, mfObs.sortedModels[Len(mfObs.preTried) + 1])
            ELSE mfObs.outcome.kind = "rejected" /\ run.pc = "idle"

(* C10: a failed attempt is terminal if and only if the thrown error       *)
(* exposes a status code (status or statusCode) in [400,500) other than    *)
(* 429; a terminal failure is recorded against the model and rethrown      *)
(* unchanged without a further call of fn; every other failure makes the   *)
(* manager try the next model.                                             *)
TerminalIffClientStatus == FallbackRule(TRUE)

(* C10, amended: a failed attempt is terminal if and only if the thrown    *)
(* value is an Error whose status, or whose statusCode when status is      *)
(* absent or 0, is in [400,500) other than 429; a value that is not an     *)
(* Error always makes the manager try the next model.                      *)
TerminalIffErrorWithClientStatus == FallbackRule(FALSE)

\* a thrown value that is no Error and carries status 404 made the manager
\* invoke fn with the second model
TerminalIffErrorWithClientStatusWitness ==
  /\ mfObs.op = "fnRejected"
  /\ ~mfObs.error.isError /\ mfObs.error.status = 404
  /\ mfRuns[mfObs.run].pc = "awaiting"
  /\ Len(mfRuns[mfObs.run].tried) = 2

\* recordFailure(id) on the registered model id adds one to its failure count;
\* a healthy model is unhealthy afterwards exactly when the count has reached
\* maxFailures, and then the current model is the best of the healthy ones
RecordFailureCounts(id) ==
  LET before == ModelsGet(mf.models, id)
      m2 == mfRecordFailure(mf, id, now, mfOpts)
      after == ModelsGet(m2.models, id)
      healthy2 == {c.model : c \in {m2.models[i] : i \in {j \in DOMAIN m2.models : m2.models[j].healthy}}}
  IN /\ after.failureCount = before.failureCount + 1
     /\ before.healthy => (~after.healthy <=> after.failureCount >= mfOpts.maxFailures)
     /\ ~before.healthy => ~after.healthy
     /\ before.healthy /\ ~after.healthy =>
          IF healthy2 = {} THEN m2.currentModel = NoModel
          ELSE /\ m2.currentModel \in healthy2
               /\ \A b \in healthy2 : ModelsGet(m2.models, m2.currentModel).priority
                                        <= ModelsGet(m2.models, b).priority

\* recordSuccess(id) on the registered model id sets its count to 0 and the
\* model healthy
RecordSuccessResets(id) ==
  LET after == ModelsGet(mfRecordSuccess(mf, id).models, id)
  IN after.failureCount = 0 /\ after.healthy

(* C11: in every reachable state, recordFailure(id) increases the failure  *)
(* count of id by one and the model becomes unhealthy exactly when the     *)
(* count reaches maxFailures; recordSuccess(id) sets the count to 0 and    *)
(* the model healthy; a model with failureCount >= maxFailures is          *)
(* unhealthy; and when the failures of the best model reach maxFailures    *)
(* the next healthy model in priority becomes the current model.           *)
HealthCounter ==
  /\ \A i \in DOMAIN mf.models :
       mf.models[i].failureCount >= mfOpts.maxFailures => ~mf.models[i].healthy
  /\ \A id \in ModelIds :
       ModelsHas(mf.models, id) => RecordFailureCounts(id) /\ RecordSuccessResets(id)

\* maxFailures failures of B (priority 1) have made A (priority 2) the
\* current model
HealthCounterWitness ==
  /\ ModelsHas(mf.models, "A") /\ ModelsHas(mf.models, "B")
  /\ ModelsGet(mf.models, "B").priority < ModelsGet(mf.models, "A").priority
  /\ ModelsGet(mf.models, "B").failureCount = mfOpts.maxFailures
  /\ mfOpts.maxFailures > 1
  /\ ~ModelsGet(mf.models, "B").healthy
  /\ ModelsGet(mf.models, "A").healthy
  /\ mf.currentModel = "A"

\* recoveryTimeout has elapsed since the last failure of the config c
RecoveryDue(c) == c.lastFailure # 0 /\ now - c.lastFailure >= mfOpts.recoveryTimeout

\* what getCurrentModel() does now to the unhealthy model id that has a
\* recorded failure: it recovers it when autoRecover is enabled and
\* recoveryTimeout has elapsed, and then the model is current if it has the
\* lowest priority among the healthy models; else it leaves it as it is
RecoversWhenDue(id) ==
  LET before == ModelsGet(mf.models, id)
      m2 == checkRecovery(mf, now, mfOpts)
      after == ModelsGet(m2.models, id)
  IN IF mfOpts.autoRecover /\ RecoveryDue(before)
     THEN /\ after.healthy /\ after.failureCount = 0
          /\ (\A i \in DOMAIN m2.models :
                m2.models[i].healthy /\ m2.models[i].model # id
                  => after.priority < m2.models[i].priority)
               => m2.currentModel = id
          /\ ModelsHas(m2.models, m2.currentModel)
          /\ ModelsGet(m2.models, m2.currentModel).priority <= after.priority
     ELSE after = before

(* C12: with autoRecover enabled, a model that became unhealthy through    *)
(* failures is healthy with failure count 0 after the first                *)
(* getCurrentModel() made once recoveryTimeout has elapsed since its last  *)
(* failure, and it is the current model again if it has the lowest         *)
(* priority among the healthy models; before recoveryTimeout has elapsed,  *)
(* and always when autoRecover is disabled, getCurrentModel() does not     *)
(* recover it.                                                             *)
AutoRecovery ==
  /\ \A id \in ModelIds :
       ModelsHas(mf.models, id) /\ ~ModelsGet(mf.models, id).healthy
         /\ ModelsGet(mf.models, id).lastFailure # 0 => RecoversWhenDue(id)
  /\ mfObs.op = "getCurrentModel" =>
       \A id \in mfObs.recovered :
         /\ mfOpts.autoRecover
         /\ RecoveryDue(ModelsGet(mf.models, id))
         /\ ModelsGet(mf.models, id).failureCount = 0

\* getCurrentModel() has recovered B (priority 1) exactly recoveryTimeout
\* after its last failure and returned it, A (priority 2) being healthy
AutoRecoveryWitness ==
  /\ mfObs.op = "getCurrentModel"
  /\ mfObs.recovered = {"B"}
  /\ mfObs.ret = "B"
  /\ now - ModelsGet(mf.models, "B").lastFailure = mfOpts.recoveryTimeout
  /\ ModelsHas(mf.models, "A") /\ ModelsGet(mf.models, "A").healthy
  /\ ModelsGet(mf.models, "B").priority < ModelsGet(mf.models, "A").priority

----------------------------------------------------------------------------
(* The specification of RateLimiter.                                       *)

\* the options of the limiter: maxTokens and refillRate (tokens per second)
MaxTokens == 2
RefillRate == 1

InitRL ==
  /\ now = 0
  /\ InitCaching
  /\ InitGenerator
  /\ InitCBIdle
  /\ InitMFIdle
  /\ InitHCIdle
  /\ rl = [tokens |-> MaxTokens, lastRefill |-> 0, maxTokens |-> MaxTokens,
           refillRate |-> RefillRate]
  /\ rlWaits = [w \in Waiters |-> NoWait]
  /\ rlAcct = MaxTokens

NextRL ==
  \/ \E n \in Amounts : RLTryAcquire(n)
  \/ \E n \in Amounts : RLGetWaitTime(n)
  \/ RLGetAvailableTokens
  \/ RLReset
  \/ \E maxTokens \in 1..MaxTokens : RLSetOptions(maxTokens)
  \/ \E w \in Waiters, n \in Amounts, fn \in BOOLEAN : RLAcquire(w, n, fn)
  \/ \E w \in Waiters : RLTimer(w)
  \/ \E w \in Waiters : RLContinue(w)
  \/ TickRL

SpecRL == InitRL /\ [][NextRL]_vars

----------------------------------------------------------------------------
(* C13.  RateLimiter token range: in every reachable state, whatever the   *)
(* interleaving of tryAcquire, acquire (several of them suspended at the   *)
(* same time), getWaitTime, reset and setOptions with 1 <= n <= maxTokens, *)
(* the token count that getAvailableTokens() returns is at least 0 and at  *)
(* most maxTokens.                                                         *)

TokensInRange ==
  /\ 0 <= getAvailableTokens(rl, now).ret
  /\ getAvailableTokens(rl, now).ret <= rl.maxTokens

----------------------------------------------------------------------------
(* C14.  RateLimiter admission bound: at every time t the tokens granted   *)
(* by successful tryAcquire calls and completed acquire calls since the    *)
(* creation or the last reset at t0 are at most                            *)
(* initialTokens + refillRate * (t - t0): what is left of that budget is   *)
(* never negative, also with several acquire / withRateLimit calls waiting *)
(* at the same time.                                                       *)

AdmissionBound == rlAcct >= 0

----------------------------------------------------------------------------
(* C15.  tryAcquire(n) agrees with a reference token bucket: in every      *)
(* reachable state and for every n it refills to                           *)
(* min(maxTokens, tokens + elapsed * refillRate), returns true and debits  *)
(* exactly n if and only if that count is at least n, and debits nothing   *)
(* when it returns false.  On a full bucket with no time passing exactly   *)
(* the first maxTokens tryAcquire() calls succeed, and k / refillRate      *)
(* seconds after the bucket was emptied exactly k more tokens are there.   *)

\* the count of the reference bucket at time t
ReferenceTokens(b, t) == Min(b.maxTokens, b.tokens + (t - b.lastRefill) * b.refillRate)

\* the limiter after k calls tryAcquire() at time t, and how many returned true
RECURSIVE TryAcquireTimes(_, _, _)
TryAcquireTimes(b, k, t) ==
  IF k = 0 THEN [b |-> b, granted |-> 0]
  ELSE LET before == TryAcquireTimes(b, k - 1, t)
           last == tryAcquire(before.b, 1, t)
       IN [b |-> last.b, granted |-> before.granted + (IF last.ret THEN 1 ELSE 0)]

TryAcquireAsReference ==
  /\ \A n \in Amounts :
       LET r == tryAcquire(rl, n, now)
       IN /\ r.ret <=> ReferenceTokens(rl, now) >= n
          /\ r.ret => r.b.tokens = ReferenceTokens(rl, now) - n
          /\ ~r.ret => r.b.tokens = ReferenceTokens(rl, now)
          /\ r.b.lastRefill = now /\ r.b.maxTokens = rl.maxTokens
  /\ ReferenceTokens(rl, now) = rl.maxTokens =>
       \A k \in 0..(rl.maxTokens + 1) :
         TryAcquireTimes(rl, k, now).granted = Min(k, rl.maxTokens)
  /\ rl.tokens = 0 =>
       \A k \in 0..rl.maxTokens :
         LET t == rl.lastRefill + k \div rl.refillRate
         IN /\ getAvailableTokens(rl, t).ret = k
            /\ TryAcquireTimes(rl, k + 1, t).granted = k

\* a bucket of two tokens or more was emptied by tryAcquire a second ago
TryAcquireAsReferenceWitness ==
  /\ rl.maxTokens >= 2
  /\ rl.tokens = 0
  /\ now = rl.lastRefill + 1
  /\ tryAcquire(rl, 1, now).ret
  /\ ~tryAcquire(rl, 2, now).ret
  /\ \A w \in Waiters : rlWaits[w].pc = "idle"

----------------------------------------------------------------------------
(* The limiter with time that passes and timers that fire.                 *)

SpecRLFair ==
  /\ SpecRL
  /\ WF_vars(TickRL)
  /\ \A w \in Waiters : WF_vars(RLTimer(w))

----------------------------------------------------------------------------
(* C16.  acquire(n): when the refilled bucket holds n tokens or more it    *)
(* debits n and resolves without waiting; otherwise it resolves only after *)
(* the (n - tokens) / refillRate seconds of the shortfall have passed and  *)
(* then debits n, a single waiter on an empty bucket leaving 0 tokens.     *)
(* Every acquire that waits eventually resolves, and withRateLimit invokes *)
(* fn only after its acquire has resolved.                                 *)

AcquireSteps ==
  /\ \A n \in Amounts :
       LET r == acquire(rl, n, now)
       IN IF ReferenceTokens(rl, now) >= n
          THEN ~r.waits /\ r.wait = 0 /\ r.b.tokens = ReferenceTokens(rl, now) - n
          ELSE /\ r.waits /\ r.b.tokens = ReferenceTokens(rl, now)
               /\ r.wait * rl.refillRate = n - ReferenceTokens(rl, now)
               /\ r.wait > 0
  /\ \A w \in Waiters :
       /\ rlWaits[w].pc = "resolved" => now >= rlWaits[w].wakeAt
       /\ rlWaits[w].pc = "waiting" =>
            acquireResume(rl, rlWaits[w].n, now).tokens
              = ReferenceTokens(rl, now) - rlWaits[w].n
       /\ (/\ rlWaits[w].pc = "waiting"
           /\ \A v \in Waiters \ {w} : rlWaits[v].pc = "idle"
           /\ rl.tokens = 0
           /\ rlWaits[w].n <= rl.maxTokens
           /\ rl.lastRefill + WaitFor(rl, rlWaits[w].n) = rlWaits[w].wakeAt)
          => acquireResume(rl, rlWaits[w].n, rlWaits[w].wakeAt).tokens = 0

FnAfterAcquire ==
  \A w \in Waiters :
    (rlWaits[w].pc # "idle" /\ rlWaits'[w].pc = "idle") => rlWaits[w].pc = "resolved"

AcquireResolves ==
  /\ []AcquireSteps
  /\ [][FnAfterAcquire]_vars
  /\ \A w \in Waiters : (rlWaits[w].pc = "waiting") ~> (rlWaits[w].pc = "resolved")

\* withRateLimit found the bucket empty, is the only call waiting, and its timer is due
AcquireResolvesWitness ==
  /\ rlWaits[1].pc = "waiting" /\ rlWaits[1].fn
  /\ rlWaits[2].pc = "idle"
  /\ rl.tokens = 0
  /\ rlWaits[1].n = 2 /\ rl.maxTokens >= 2
  /\ rlWaits[1].wakeAt = rl.lastRefill + 2
  /\ now = rlWaits[1].wakeAt

----------------------------------------------------------------------------
(* C17.  RequestDeduplicator settlement.                                   *)

\* the invocations of the executor for the fingerprint key that were made
\* after invocation p
LaterFor(key, p) ==
  {q \in (p + 1)..Len(promises) : FingerprintOf[promises[q].req] = key}

\* caller c, having observed the outcome of its call, calls deduplicate again
CallsAgain(c) == calls[c].pc = "settled" /\ calls'[c].pc \in {"awaitOwner", "awaitShared"}

(* C17 as stated: a deduplicate call issued by a caller after it observed  *)
(* the outcome of its call always invokes its executor anew.               *)
CallAfterOutcomeInvokesExecutor ==
  [][\A c \in Callers : CallsAgain(c) => calls'[c].owner]_vars

\* when a caller has observed the outcome of the executor's promise, the
\* finally block of the first caller has removed the fingerprint: the map
\* holds it only for an invocation made after that, and isInFlight is false
\* when no identical request was issued since
RemovedBeforeObserved ==
  \A c \in Callers :
    calls[c].pc = "settled" =>
      LET key == FingerprintOf[calls[c].req]
          p == calls[c].prom
      IN /\ promises[p].st # "pending"
         /\ promises[p].fin
         /\ MapHas(inFlight, key) => inFlight[key] \in LaterFor(key, p)
         /\ LaterFor(key, p) = {} => ~MapHas(inFlight, key)

\* a call issued after the outcome was observed invokes its executor anew,
\* or joins the invocation of an identical call issued since the removal
\* that is still registered
CallAfterOutcome ==
  \A c \in Callers :
    CallsAgain(c) =>
      LET key == FingerprintOf[calls'[c].req]
      IN /\ calls'[c].owner <=> ~MapHas(inFlight, key)
         /\ calls'[c].owner =>
              /\ Len(promises') = Len(promises) + 1
              /\ calls'[c].prom = Len(promises')
         /\ ~calls'[c].owner =>
              /\ promises' = promises
              /\ calls'[c].prom = inFlight[key]
              /\ (key = FingerprintOf[calls[c].req] => calls'[c].prom > calls[c].prom)

(* C17, amended: once the executor's promise settles the fingerprint is    *)
(* removed from the in-flight map before any caller of deduplicate         *)
(* observes the outcome.  A call issued by a caller after it observed the  *)
(* outcome invokes its executor anew, unless an identical call issued      *)
(* after the removal is still in flight, which it then joins; isInFlight   *)
(* is false after a settled call when no new identical request was issued. *)
SettlementRemoves == []RemovedBeforeObserved /\ [][CallAfterOutcome]_vars

\* both callers shared one invocation; the first observed its outcome and
\* called again, the second has observed the outcome while that call is in
\* flight
SettlementRemovesWitness ==
  /\ Len(promises) = 2
  /\ calls[1].pc = "awaitOwner" /\ calls[1].prom = 2 /\ calls[1].req = 1
  /\ calls[2].pc = "settled" /\ calls[2].prom = 1 /\ calls[2].req = 1
  /\ promises[1].fin
  /\ promises[2].st = "pending"
  /\ inFlight[FingerprintOf[1]] = 2

----------------------------------------------------------------------------
(* The specification of ResponseCache.                                     *)

\* the options of the cache: maxSize (small, so that the cache fills)
CacheMaxSize == 2

\* the options given to setOptions
OptionArgs ==
  {[maxSize |-> m] : m \in 1..CacheMaxSize} \cup {[enabled |-> b] : b \in BOOLEAN}

InitRC ==
  /\ now = 0
  /\ cache = NewCache([ttl |-> DefaultTtl, maxSize |-> CacheMaxSize, enabled |-> TRUE])
  /\ inFlight = EmptyMap
  /\ promises = <<>>
  /\ calls = [c \in Callers |-> NoCall]
  /\ written = NoWrites
  /\ InitGenerator
  /\ InitCBIdle
  /\ InitMFIdle
  /\ InitRLIdle
  /\ InitHCIdle

NextRC ==
  \/ \E k \in Keys, value \in CValues, ttl \in TtlArgs : RCSet(k, value, ttl)
  \/ \E k \in Keys : RCGet(k)
  \/ \E k \in Keys : RCHas(k)
  \/ RCCleanup
  \/ RCClear
  \/ \E options \in OptionArgs : RCSetOptions(options)
  \/ TickRC

SpecRC == InitRC /\ [][NextRC]_vars

----------------------------------------------------------------------------
(* C18.  ResponseCache round trip and expiry: after set(k, v, ttl) at t0   *)
(* on an enabled cache, while k was not evicted, cleared or overwritten,   *)
(* get(k) at time t returns v whenever t - t0 <= ttl (ttl the argument of  *)
(* set, or the default when it was left out); once t - t0 > ttl, get(k)    *)
(* returns absent and removes the entry, so that has(k) is then false and  *)
(* size() no longer counts it.                                             *)

RoundTripUntilExpiry ==
  \A k \in Keys :
    written.last[k].set =>
      LET w == written.last[k]
          got == CacheGet(cache, CacheKey[k], now)
      IN IF now - w.timestamp <= w.ttl
         THEN got.hit /\ got.val = w.value
         ELSE /\ ~got.hit
              /\ ~CacheHas(got.c, CacheKey[k], now).ret
              /\ CacheSize(got.c) = CacheSize(cache) - 1

----------------------------------------------------------------------------
(* C19.  ResponseCache LRU eviction: set(k, v) with a key that is not      *)
(* present, on a cache holding maxSize entries, removes exactly one entry, *)
(* the key whose most recent touch (a set, or a get or has that returned a *)
(* value) is oldest, and then inserts k; set on a key that is present      *)
(* evicts nothing, replaces the value and makes k the most recently used.  *)

\* the cache keys that set would remove from the cache C, arriving at C2
Removed(C, C2) == DOMAIN C.map \ DOMAIN C2.map

SetEvictsLeastRecentlyTouched ==
  \A k \in Keys, value \in CValues, ttl \in TtlArgs :
    cache.opts.enabled =>
      LET C2 == CacheSetTtl(cache, CacheKey[k], value, ttl, now)
          others == DOMAIN cache.map \ {CacheKey[k]}
      IN /\ MapHas(C2.map, CacheKey[k])
         /\ C2.map[CacheKey[k]].value = value
         /\ C2.order[Len(C2.order)] = CacheKey[k]
         /\ IF written.last[k].set
            THEN /\ Removed(cache, C2) = {}
                 /\ \A h \in others : C2.map[h] = cache.map[h]
            ELSE /\ ~MapHas(cache.map, CacheKey[k])
                 /\ CacheSize(cache) = cache.opts.maxSize =>
                      Removed(cache, C2) = {CacheKey[written.touched[1]]}
                 /\ CacheSize(cache) < cache.opts.maxSize => Removed(cache, C2) = {}
                 /\ \A h \in DOMAIN cache.map \ Removed(cache, C2) : C2.map[h] = cache.map[h]

----------------------------------------------------------------------------
(* C20.  ResponseCache capacity: for maxSize >= 1, after every completed   *)
(* operation size() <= maxSize; after setOptions lowers maxSize below the  *)
(* current size the cache holds exactly the new maxSize most recently      *)
(* touched entries, the older ones having been evicted oldest first.       *)

\* the last n elements of the sequence q
LastOf(q, n) == SubSeq(q, Len(q) - n + 1, Len(q))

\* the cache keys of the touched keys, each at its most recent touch
RECURSIVE TouchedEntries(_)
TouchedEntries(touched) ==
  IF touched = <<>> THEN <<>>
  ELSE LET h == CacheKey[touched[Len(touched)]]
       IN Append(SelectSeq(TouchedEntries(SubSeq(touched, 1, Len(touched) - 1)),
                           LAMBDA x : x # h), h)

Capacity ==
  /\ cache.opts.maxSize >= 1 => CacheSize(cache) <= cache.opts.maxSize
  /\ cache.order = TouchedEntries(written.touched)
  /\ DOMAIN cache.map = {cache.order[i] : i \in 1..Len(cache.order)}
  /\ Len(cache.order) = CacheSize(cache)
  /\ \A m \in 1..CacheMaxSize :
       LET C2 == CacheSetOptions(cache, [maxSize |-> m])
       IN /\ CacheSize(C2) <= m
          /\ C2.opts.maxSize = m
          /\ \A h \in DOMAIN C2.map : C2.map[h] = cache.map[h]
          /\ IF m < CacheSize(cache)
             THEN /\ CacheSize(C2) = m
                  /\ C2.order = LastOf(cache.order, m)
                  /\ DOMAIN C2.map = {C2.order[i] : i \in 1..m}
             ELSE C2.map = cache.map /\ C2.order = cache.order

\* setOptions lowered maxSize to 1 on a cache that held s1 and, touched
\* later, s2: s2 is left
CapacityWitness ==
  /\ cache.opts.maxSize = 1
  /\ cache.opts.enabled
  /\ CacheSize(cache) = 1
  /\ written.touched = <<"s2">>
  /\ written.last["s2"].timestamp < now
  /\ ~MapHas(cache.map, CacheKey["s1"])

----------------------------------------------------------------------------
(* C21.  ResponseCache disabling: while enabled is false every get returns *)
(* absent, every set stores nothing and size() is 0;                       *)
(* setOptions({enabled: false}) removes all entries at once, and after the *)
(* cache is enabled again no key stored before is retrievable.             *)

DisabledCacheIsEmpty ==
  /\ ~cache.opts.enabled =>
       /\ CacheSize(cache) = 0
       /\ cache.order = <<>>
       /\ \A k \in Keys :
            /\ ~CacheGet(cache, CacheKey[k], now).hit
            /\ CacheGet(cache, CacheKey[k], now).c = cache
            /\ ~CacheHas(cache, CacheKey[k], now).ret
            /\ \A value \in CValues, ttl \in TtlArgs :
                 CacheSetTtl(cache, CacheKey[k], value, ttl, now) = cache
  /\ LET off == CacheSetOptions(cache, [enabled |-> FALSE])
         on == CacheSetOptions(off, [enabled |-> TRUE])
     IN /\ CacheSize(off) = 0
        /\ off.order = <<>>
        /\ ~off.opts.enabled /\ on.opts.enabled
        /\ CacheSize(on) = 0
        /\ \A k \in Keys : ~CacheGet(on, CacheKey[k], now).hit
  /\ \A k \in Keys : written.last[k].set => cache.opts.enabled

\* the cache was disabled after its maxSize had been lowered, and time has passed
DisabledCacheIsEmptyWitness ==
  /\ ~cache.opts.enabled
  /\ cache.opts.maxSize = 1
  /\ now = 1

----------------------------------------------------------------------------
(* C22.  CachingContentGenerator cacheability: generateContent writes to   *)
(* the cache only a response that has at least one candidate.  When the    *)
(* wrapped call rejects, or resolves without candidates, the outcome       *)
(* reaches the caller unchanged, the in-flight entry is removed, nothing   *)
(* is cached, and a later identical request invokes the wrapped generator  *)
(* again: it is not answered from the cache.                               *)

\* response.candidates && response.candidates.length > 0
Cacheable(ret) == ret.ok /\ ret.cands > 0

\* the call of c went to the wrapped generator and failed or brought no candidates
FailedCall(c) == calls[c].pc = "done" /\ ~calls[c].hit /\ ~Cacheable(calls[c].ret)

FailureIsNotCached ==
  /\ \A h \in DOMAIN cache.map : Cacheable(cache.map[h].value)
  /\ \A c \in GenCallers :
       FailedCall(c) =>
         LET key == FingerprintOf[calls[c].req]
         IN /\ calls[c].ret = Outcome(calls[c].prom)
            /\ MapHas(inFlight, key) => inFlight[key] # calls[c].prom
            /\ LaterFor(key, calls[c].prom) = {} =>
                 /\ ~MapHas(inFlight, key)
                 /\ ~CacheGet(cache, CacheKeyOf[calls[c].req], now).hit

----------------------------------------------------------------------------
(* The specification of HistoryCompressor.                                 *)

InitHC ==
  /\ now = 0
  /\ InitCaching
  /\ InitGenerator
  /\ InitCBIdle
  /\ InitMFIdle
  /\ InitRLIdle
  /\ \E options \in CompressionOptions : hc = [history |-> <<>>, options |-> options]

NextHC ==
  \/ \E turn \in Turns : HCAppend(turn)
  \/ HCCompress
  \/ \E options \in CompressionOptions : HCSetOptions(options)

SpecHC == InitHC /\ [][NextHC]_vars

----------------------------------------------------------------------------
(* C23.  HistoryCompressor budget: for every history the estimated token   *)
(* total of compress(history), a turn costing                              *)
(* ceil(characters / charsPerToken), is at most maxTokens, so that         *)
(* needsCompression(compress(history)) is false.                           *)

CompressedFitsBudget ==
  LET out == compress(hc.history, hc.options)
  IN /\ TotalTokens(out, hc.options) <= hc.options.maxTokens
     /\ ~needsCompression(out, hc.options)

----------------------------------------------------------------------------
(* C24.  HistoryCompressor identity: needsCompression(history) is true     *)
(* exactly when the sum of the per-turn estimates exceeds maxTokens, and   *)
(* whenever it is false compress(history) returns the history unchanged.   *)

SmallHistoryUnchanged ==
  /\ needsCompression(hc.history, hc.options)
       <=> TotalTokens(hc.history, hc.options) > hc.options.maxTokens
  /\ ~needsCompression(hc.history, hc.options) =>
       compress(hc.history, hc.options) = hc.history

\* three turns, a text of 600 characters and a tool call among them, within
\* a budget of 400 tokens
SmallHistoryUnchangedWitness ==
  /\ Len(hc.history) = 3
  /\ hc.options.maxTokens = 400
  /\ TotalTokens(hc.history, hc.options) > 150
  /\ ~needsCompression(hc.history, hc.options)
  /\ \E i \in 1..3 : hasToolCalls(hc.history[i])
  /\ compress(hc.history, hc.options) = hc.history

----------------------------------------------------------------------------
(* C25.  HistoryCompressor recent window: for every history that compress  *)
(* changes, the last min(length, preserveRecentTurns * 2) turns of the     *)
(* output are the last turns of the input, unmodified and in their order.  *)

RecentTurnsKept ==
  LET out == compress(hc.history, hc.options)
      n == Min(Len(hc.history), hc.options.preserveRecentTurns * 2)
  IN out # hc.history =>
       /\ Len(out) >= n
       /\ LastOf(out, n) = LastOf(hc.history, n)

\* an older turn was dropped for the marker; the two recent turns, one of
\* them a text of 2400 characters, are kept as they are
RecentTurnsKeptWitness ==
  /\ Len(hc.history) = 3
  /\ hc.options.preserveRecentTurns = 1
  /\ \E i \in 2..3 : hc.history[i] = Turn("model", <<Text(2400)>>)
  /\ compress(hc.history, hc.options) # hc.history
  /\ compress(hc.history, hc.options)[1] = compressionMarker
  /\ LastOf(compress(hc.history, hc.options), 2) = LastOf(hc.history, 2)

----------------------------------------------------------------------------
(* C26.  HistoryCompressor tool-call survival: with preserveToolCalls true *)
(* the output of compress for a history that contains a tool-call part     *)
(* contains a tool-call part.                                              *)

ToolCallSurvives ==
  (hc.options.preserveToolCalls /\ \E i \in DOMAIN hc.history : hasToolCalls(hc.history[i]))
    => \E i \in DOMAIN compress(hc.history, hc.options) :
         hasToolCalls(compress(hc.history, hc.options)[i])

----------------------------------------------------------------------------
(* C27.  HistoryCompressor reduction: for every history of more than       *)
(* preserveRecentTurns * 2 turns whose estimated total exceeds maxTokens,  *)
(* compress returns strictly fewer turns, so that getCompressionStats      *)
(* reports turnsRemoved > 0.                                               *)

CompressRemovesTurns ==
  LET out == compress(hc.history, hc.options)
  IN (/\ Len(hc.history) > hc.options.preserveRecentTurns * 2
      /\ TotalTokens(hc.history, hc.options) > hc.options.maxTokens)
     => /\ Len(out) < Len(hc.history)
        /\ getCompressionStats(hc.history, out, hc.options).turnsRemoved > 0

----------------------------------------------------------------------------
(* The specification of RequestDeduplicator with clear().                  *)

NextDedupClear ==
  \/ \E c \in Callers, r \in Requests : DedupCall(c, r)
  \/ \E p \in 1..MaxPromises, ok \in BOOLEAN, n \in 0..1 : Settle(p, ok, n)
  \/ \E c \in Callers : OwnerCont(c)
  \/ \E c \in Callers : SharedCont(c)
  \/ DedupClear

SpecDedupClear == InitDedup /\ [][NextDedupClear]_vars

\* the invocations of the executor whose registration is due: pending, or
\* settled with the finally block of the first caller still queued
Unfinished(r) ==
  {p \in 1..Len(promises) :
     /\ FingerprintOf[promises[p].req] = FingerprintOf[r]
     /\ promises[p].st = "pending" \/ ~promises[p].fin}

\* at most one invocation per fingerprint is pending; isInFlight and
\* getInFlightCount tell the fingerprints with an invocation pending (or
\* settled in this very turn of the job queue)
InFlightIsPending ==
  /\ \A r \in Requests :
       /\ Cardinality(PendingFor(r)) <= 1
       /\ PendingFor(r) # {} => isInFlight(r)
       /\ isInFlight(r) => inFlight[FingerprintOf[r]] \in Unfinished(r)
  /\ getInFlightCount = Cardinality({FingerprintOf[r] : r \in {q \in Requests : Unfinished(q) # {}}})

\* the finally block of an execution removes the registration that this
\* execution made, and no other
RemovesOwnRegistration ==
  \A c \in Callers :
    (calls[c].pc = "awaitOwner" /\ calls'[c].pc = "settled") =>
      LET key == FingerprintOf[calls[c].req]
      IN MapHas(inFlight, key) /\ ~MapHas(inFlight', key) => inFlight[key] = calls[c].prom

(* C28: under every interleaving of deduplicate calls, settlements of the  *)
(* executor and clear(), at most one invocation of the executor per        *)
(* fingerprint is pending, isInFlight is true exactly while an invocation  *)
(* for the fingerprint is pending, getInFlightCount is the number of       *)
(* fingerprints with one pending, and the settlement of an execution       *)
(* removes only the registration that this execution made.                 *)
InFlightInvariant == []InFlightIsPending /\ [][RemovesOwnRegistration]_vars

----------------------------------------------------------------------------
(* The specification of CircuitBreaker next to the eager breaker.          *)

NextCBPair ==
  \/ PairGetState
  \/ PairIsAllowed
  \/ PairRecordSuccess
  \/ PairRecordFailure
  \/ PairExecute
  \/ \E ok \in BOOLEAN : PairExecuteSettle(ok)
  \/ TickCB

SpecCBPair == InitCB /\ [][NextCBPair]_vars

----------------------------------------------------------------------------
(* C29: lazy evaluation is indistinguishable from a timer: after every     *)
(* sequence of recordSuccess, recordFailure, execute, getState and         *)
(* isAllowed calls at arbitrary times, getState and isAllowed return what  *)
(* they return on a breaker of the same calls that switches OPEN to        *)
(* HALF_OPEN at exactly lastStateChange + resetTimeout; a recordSuccess    *)
(* after the cooldown closes the circuit, a recordFailure then re-opens it *)
(* with a fresh cooldown, read in between or not.                          *)
LazyAsEager ==
  LET lazy == checkStateTransition(cb, now, cbOpts)
      timed == timerFired(eager, now, cbOpts)
  IN /\ lazy.state = timed.state
     /\ Allowed(lazy) = Allowed(timed)

----------------------------------------------------------------------------
(* The specification of CircuitBreaker with its manual controls.           *)

NextCBForce ==
  \/ PairGetState
  \/ PairIsAllowed
  \/ PairRecordSuccess
  \/ PairRecordFailure
  \/ PairExecute
  \/ \E ok \in BOOLEAN : PairExecuteSettle(ok)
  \/ PairForceClose
  \/ PairForceOpen
  \/ PairReset
  \/ TickCB

InitCBForce ==
  /\ now = 0
  /\ InitCaching
  /\ InitGenerator
  /\ InitMFIdle
  /\ InitRLIdle
  /\ InitHCIdle
  /\ cb = NewBreaker(0)
  /\ \E hasRate \in BOOLEAN :
       cbOpts = [failureThreshold |-> CBThreshold, resetTimeout |-> CBResetTimeout,
                 windowMs |-> CBWindow, hasRate |-> hasRate,
                 rateNum |-> RateNum, rateDen |-> RateDen]
  /\ cbRuns = 0
  /\ cbObs = NoObs
  /\ cbHist = [failures |-> <<>>, successes |-> <<>>, openedAt |-> 0, whileOpen |-> 0]
  /\ eager = NoEager

SpecCBForce == InitCBForce /\ [][NextCBForce]_vars

\* the step is the call of a manual control
Manual == now' = now /\ cbObs'.op \in {"forceOpen", "forceClose", "reset"}

\* the step is a call that reads the state
Reads == now' = now /\ cbObs'.op \in {"getState", "isAllowed", "execute"}

\* the state changes of a step that is not a manual control
TransitionGraph ==
  (cb'.state # cb.state /\ ~Manual) =>
    \/ /\ cb.state = "closed" /\ cb'.state = "open"
       /\ cbObs'.op = "recordFailure"
       /\ shouldOpen(cleanupOldRecords([cb EXCEPT !.failures = Append(@, now)], now, cbOpts),
                     cbOpts)
    \/ /\ cb.state = "open" /\ cb'.state = "half_open"
       /\ Reads
       /\ now - cb.lastStateChange >= cbOpts.resetTimeout
    \/ /\ cb.state = "half_open" /\ cb'.state = "closed"
       /\ cbObs'.op = "recordSuccess"
    \/ /\ cb.state = "half_open" /\ cb'.state = "open"
       /\ cbObs'.op = "recordFailure"

\* forceOpen and forceClose set the state, from any state and whatever the
\* records
ForceSets ==
  /\ now' = now /\ cbObs'.op = "forceOpen" => cb'.state = "open"
  /\ now' = now /\ cbObs'.op = "forceClose" => cb'.state = "closed"

(* C30: the breaker starts CLOSED; without forceOpen, forceClose or reset  *)
(* the only state changes are CLOSED to OPEN (a recordFailure meeting the  *)
(* trip condition), OPEN to HALF_OPEN (a read after the cooldown),         *)
(* HALF_OPEN to CLOSED (recordSuccess) and HALF_OPEN to OPEN               *)
(* (recordFailure); forceOpen and forceClose set the state to OPEN and to  *)
(* CLOSED from any state, whatever the recorded counts.                    *)
CBTransitions ==
  /\ cb.state = "closed"
  /\ [][TransitionGraph /\ ForceSets]_vars

\* after the first cooldown forceOpen() has opened a breaker that has no
\* failure in its window
CBTransitionsWitness ==
  /\ cbObs.op = "forceOpen"
  /\ cb.state = "open"
  /\ cb.failures = <<>>
  /\ cb.lastStateChange = now
  /\ now > CBResetTimeout

----------------------------------------------------------------------------
\* a step keeps lastStateChange when it keeps the state, and sets it to the
\* time of the call when it changes the state
StampWithState ==
  /\ cb'.state = cb.state => cb'.lastStateChange = cb.lastStateChange
  /\ cb'.state # cb.state => cb'.lastStateChange = now

(* C31: lastStateChange changes exactly when the state changes value:      *)
(* every operation that leaves the state unchanged (recordFailure while    *)
(* OPEN, recordSuccess while CLOSED, forceOpen on an OPEN breaker,         *)
(* forceClose or reset() on a CLOSED breaker, a read before the cooldown   *)
(* elapsed) leaves it unchanged, and every state change sets it to the     *)
(* current time.                                                           *)
StampOnlyOnChange == [][StampWithState]_vars

----------------------------------------------------------------------------
(* The specification of CircuitBreaker: its records and getStats.          *)

NextCBStats ==
  \/ CBGetState
  \/ CBRecordSuccess
  \/ CBRecordFailure
  \/ CBGetStats
  \/ TickCB

SpecCBStats == InitCB /\ [][NextCBStats]_vars

\* the timestamps of seq newer than t - windowMs
Retained(seq, t) == SelectSeq(seq, LAMBDA x : x > t - cbOpts.windowMs)

\* right after recordSuccess, recordFailure and getStats the breaker holds
\* the records made since it last closed that are newer than now - windowMs,
\* and no other; getStats reports their counts
WindowKept ==
  (cbObs.op \in {"recordSuccess", "recordFailure", "getStats"} /\ cbObs.at = now) =>
    /\ cb.failures = Retained(cbHist.failures, now)
    /\ cb.successes = Retained(cbHist.successes, now)
    /\ cbObs.op = "getStats" =>
         /\ cbObs.ret.failures = Len(Retained(cbHist.failures, now))
         /\ cbObs.ret.successes = Len(Retained(cbHist.successes, now))

\* a CLOSED breaker opens only with failureThreshold records in the window
\* that ends at the failure, and exactly when these meet the trip condition
OpensOnWindow ==
  (cb.state = "closed" /\ cbObs'.op = "recordFailure" /\ cbObs'.pre = cb /\ now' = now) =>
    LET f == InWindow(cbHist'.failures, now)
        n == InWindow(cbHist'.successes, now)
    IN /\ cb'.state = "open" <=> TripCondition(f, n)
       /\ cb'.state = "open" => f + n >= cbOpts.failureThreshold

(* C32: after every recordSuccess, recordFailure and getStats the breaker  *)
(* retains only the timestamps newer than now - windowMs, and only those   *)
(* count toward the trip condition and the reported failures and           *)
(* successes; a CLOSED breaker that never has failureThreshold records     *)
(* inside one window of length windowMs never opens, however many failures *)
(* accumulate over time.                                                   *)
WindowOnly == []WindowKept /\ [][OpensOnWindow]_vars

\* a failure was recorded on a breaker that is still CLOSED after
\* failureThreshold failures, never that many inside one window
WindowOnlyWitness ==
  /\ cb.state = "closed"
  /\ cbObs.op = "recordFailure" /\ cbObs.at = now
  /\ Len(cbHist.failures) >= cbOpts.failureThreshold
  /\ Len(cb.failures) < Len(cbHist.failures)

----------------------------------------------------------------------------
\* the models getCurrentModel() would hold healthy at this instant, best
\* priority first
HealthView ==
  LET sorted == SortByPriority(FilterHealthy(checkRecovery(mf, now, mfOpts).models))
  IN [i \in DOMAIN sorted |-> sorted[i].model]

(* C33: executeWithFallback uses the health view of getCurrentModel: with  *)
(* autoRecover a model marked unhealthy whose last failure is at least     *)
(* recoveryTimeout old is tried again by the next executeWithFallback, so  *)
(* the manager stops rejecting with 'No healthy models available' once     *)
(* recoveryTimeout has elapsed, getCurrentModel() called in between or not.*)
ExecuteSeesRecovery ==
  [][mfObs'.op = "executeWithFallback" =>
       /\ mfObs'.sortedModels = HealthView
       /\ HealthView # <<>> => mfObs'.outcome.kind # "rejected"]_vars

\* fn is invoked in this step by the call r
Invokes(r) ==
  /\ mfRuns'[r].pc = "awaiting"
  /\ mfRuns'[r].tried # mfRuns[r].tried

(* C34: for every interleaving of executeWithFallback calls with           *)
(* recordFailure, forceUnhealthy and removeModel, fn is never invoked with *)
(* a model that is unhealthy or no longer registered at the moment of the  *)
(* invocation.                                                             *)
FnOnlyOnHealthy ==
  [][\A r \in FallbackRuns :
       Invokes(r) =>
         LET model == mfRuns'[r].tried[Len(mfRuns'[r].tried)]
         IN /\ ModelsHas(mf'.models, model)
            /\ ModelsGet(mf'.models, model).healthy]_vars

----------------------------------------------------------------------------
\* the limiter after a read (getWaitTime, getAvailableTokens, getStats) at
\* time t
AfterReads(b, t) ==
  {getWaitTime(b, n, t).b : n \in 1..MaxTokens}
    \cup {getAvailableTokens(b, t).b, rlGetStats(b, t).b}

\* the calls that follow, and what each leaves and returns on the limiter b
\* at time t
LaterCalls ==
  {<<"tryAcquire", n>> : n \in 1..MaxTokens}
    \cup {<<"acquire", n>> : n \in 1..MaxTokens}
    \cup {<<"getWaitTime", n>> : n \in 1..MaxTokens}
    \cup {<<"setOptions", m>> : m \in 1..MaxTokens}
    \cup {<<"reset", 0>>}

Later(call, b, t) ==
  CASE call[1] = "tryAcquire" -> tryAcquire(b, call[2], t)
    [] call[1] = "acquire" -> [b |-> acquire(b, call[2], t).b, ret |-> acquire(b, call[2], t).wait]
    [] call[1] = "getWaitTime" -> getWaitTime(b, call[2], t)
    [] call[1] = "setOptions" -> [b |-> rlSetOptions(b, call[2]), ret |-> 0]
    [] OTHER -> [b |-> rlReset(b, t), ret |-> 0]

\* the token counts getAvailableTokens reports on b from time t on
TokensFrom(b, t) == [u \in t..(MaxTimeLimiter + 1) |-> getAvailableTokens(b, u).ret]

\* getWaitTime(n) is 0 exactly when tryAcquire(n) succeeds, else the time
\* in which the shortfall refills
WaitTimeAsTryAcquire ==
  \A n \in 1..MaxTokens :
    LET w == getWaitTime(rl, n, now).ret
    IN /\ w = 0 <=> tryAcquire(rl, n, now).ret
       /\ w # 0 => w * rl.refillRate = n - refill(rl, now).tokens

\* a read made at any instant since the last call changes neither what the
\* next call returns nor the token counts seen after it
ReadsChangeNothing ==
  \A u \in rl.lastRefill..now : \A b \in AfterReads(rl, u) : \A call \in LaterCalls :
    /\ Later(call, b, now).ret = Later(call, rl, now).ret
    /\ TokensFrom(Later(call, b, now).b, now) = TokensFrom(Later(call, rl, now).b, now)

(* C35: getWaitTime(n) returns 0 exactly when tryAcquire(n) at the same    *)
(* instant would succeed and otherwise the time for the shortfall to       *)
(* refill, and getWaitTime, getAvailableTokens or getStats calls inserted  *)
(* at any instants change neither the result of a later tryAcquire,        *)
(* acquire or getWaitTime nor the token count observed at a later time.    *)
ReadsArePure == WaitTimeAsTryAcquire /\ ReadsChangeNothing

----------------------------------------------------------------------------
(* C36: after every operation (set, get, has, cleanup, clear, setOptions,  *)
(* expiry removal and eviction included) the access order holds exactly    *)
(* the keys of the cache map, each exactly once.                           *)
AccessOrderIsKeys ==
  /\ {cache.order[i] : i \in DOMAIN cache.order} = DOMAIN cache.map
  /\ \A i, j \in DOMAIN cache.order : cache.order[i] = cache.order[j] => i = j

\* the cache is full and the entry written first was read after the other
\* was written: a get has moved its key to the end of the access order
AccessOrderIsKeysWitness ==
  /\ Len(cache.order) = CacheMaxSize
  /\ cache.map[cache.order[1]].timestamp > cache.map[cache.order[2]].timestamp

----------------------------------------------------------------------------
\* generateContent is called by c in this step and misses the cache
Misses(c) ==
  /\ calls[c].pc \in {"idle", "done"}
  /\ calls'[c].pc \in {"awaitOwner", "awaitShared"}

(* C37: when the instance is configured with enableDeduplication = false,  *)
(* concurrent identical generateContent calls that miss the cache are not  *)
(* coalesced: each of them invokes the wrapped generator.                  *)
NoCoalescingWhenDisabled ==
  [][ccg.enableDeduplication = <<FALSE>> =>
       \A c \in GenCallers :
         Misses(c) =>
           /\ calls'[c].owner
           /\ Len(promises') = Len(promises) + 1]_vars

----------------------------------------------------------------------------
\* the parts out are parts of inp in their order, each as it was or shorter
RECURSIVE PartsShortened(_, _)
PartsShortened(out, inp) ==
  IF out = <<>> THEN TRUE
  ELSE IF inp = <<>> THEN FALSE
  ELSE \/ /\ Head(out).kind = Head(inp).kind
          /\ Head(out).len <= Head(inp).len
          /\ Head(out).len < Head(inp).len <=> Head(out) # Head(inp)
          /\ PartsShortened(Tail(out), Tail(inp))
       \/ PartsShortened(out, Tail(inp))

\* the turn out is the turn inp, unchanged or shortened
TurnShortened(out, inp) == out.role = inp.role /\ PartsShortened(out.parts, inp.parts)

\* the turns out correspond to a subsequence of the turns inp, in order
RECURSIVE Subsequence(_, _)
Subsequence(out, inp) ==
  IF out = <<>> THEN TRUE
  ELSE IF inp = <<>> THEN FALSE
  ELSE \/ TurnShortened(Head(out), Head(inp)) /\ Subsequence(Tail(out), Tail(inp))
       \/ Subsequence(out, Tail(inp))

\* where the turns equal to the marker are
MarkerAt(history) == {i \in DOMAIN history : history[i] = compressionMarker}

\* the turns that are not the marker
Unmarked(history) == SelectSeq(history, LAMBDA c : c # compressionMarker)

(* C38 as stated: compress never reorders or duplicates turns; apart from  *)
(* the marker turn, the output turns correspond to a subsequence of the    *)
(* input turns in their order, each unchanged or shortened.  The marker    *)
(* turn appears at most once, only at index 0, and exactly when at least   *)
(* one turn before the recent window was dropped.                          *)
OneMarkerAtFront ==
  LET out == compress(hc.history, hc.options)
  IN /\ Subsequence(Unmarked(out), hc.history)
     /\ MarkerAt(out) \subseteq {1}
     /\ MarkerAt(out) = {1} <=> Len(Unmarked(out)) < Len(hc.history)

(* C38, amended: compress never reorders or duplicates turns.  Either it   *)
(* drops nothing and the output turns are the input turns, each unchanged  *)
(* or shortened; or it drops at least one turn before the recent window,   *)
(* and the output is one new marker turn at index 0 followed by turns that *)
(* correspond to a subsequence of the input turns in their order, each     *)
(* unchanged or shortened.  A marker turn that the input holds from an     *)
(* earlier compress is an input turn like any other.                       *)
MarkerThenSubsequence ==
  LET out == compress(hc.history, hc.options)
      n == Min(Len(hc.history), hc.options.preserveRecentTurns * 2)
  IN \/ /\ Len(out) = Len(hc.history)
        /\ \A i \in DOMAIN out : TurnShortened(out[i], hc.history[i])
     \/ /\ out # <<>>
        /\ out[1] = compressionMarker
        /\ Len(Tail(out)) < Len(hc.history)
        /\ Subsequence(Tail(out), hc.history)
        /\ LastOf(Tail(out), n) = LastOf(hc.history, n)

\* the history holds the marker of an earlier compress; compress drops a
\* turn, keeps the old marker and prepends a new one
MarkerThenSubsequenceWitness ==
  LET out == compress(hc.history, hc.options)
  IN /\ Len(hc.history) = 3
     /\ hc.history[1] = compressionMarker
     /\ Len(out) >= 2
     /\ out[1] = compressionMarker
     /\ out[2] = compressionMarker
     /\ Len(out) < Len(hc.history) + 1

----------------------------------------------------------------------------
\* the tool parts of a history, in order: "call" for a functionCall,
\* "result" for a functionResponse
RECURSIVE ToolKinds(_)
ToolKinds(history) ==
  IF history = <<>> THEN <<>>
  ELSE LET tools == SelectSeq(Head(history).parts, LAMBDA p : p.kind \in {"call", "result"})
       IN [i \in DOMAIN tools |-> tools[i].kind] \o ToolKinds(Tail(history))

\* every call is followed by its result, and every result follows its call
Paired(kinds) ==
  /\ Len(kinds) % 2 = 0
  /\ \A i \in DOMAIN kinds : kinds[i] = (IF i % 2 = 1 THEN "call" ELSE "result")

(* C39: tool pairs are atomic: for every tool-call turn and its matching   *)
(* tool-result turn in the input, the output of compress holds both turns  *)
(* with their tool parts, or neither; a pair is never split by dropping    *)
(* one turn, by the boundary of the recent window, or by removing the tool *)
(* part from a turn that is kept.                                          *)
ToolPairsAtomic ==
  Paired(ToolKinds(hc.history)) => Paired(ToolKinds(compress(hc.history, hc.options)))

----------------------------------------------------------------------------
\* the older turns kept when every turn that is over the budget is included
\* in its aggressively shortened form if that form fits, and dropped if not
RECURSIVE IncludeWhenFits(_, _, _, _, _, _, _)
IncludeWhenFits(history, i, preserveFrom, olderBudget, compressed, olderTokensUsed, o) ==
  IF i > preserveFrom THEN compressed
  ELSE LET content == history[i]
           aggressive == olderTokensUsed + estimateTokens(content, o) > olderBudget
           compressedContent == compressContent(content, aggressive, o)
           newTokens == estimateTokens(compressedContent, o)
       IN IF aggressive /\ olderTokensUsed + newTokens > olderBudget
          THEN IncludeWhenFits(history, i + 1, preserveFrom, olderBudget, compressed,
                               olderTokensUsed, o)
          ELSE IncludeWhenFits(history, i + 1, preserveFrom, olderBudget,
                               Append(compressed, compressedContent),
                               olderTokensUsed + newTokens, o)

\* the tool parts of the aggressively shortened form of a turn
AggressiveToolParts(content, o) ==
  SelectSeq(compressContent(content, TRUE, o).parts, LAMBDA p : p.kind \in {"call", "result"})

(* C40: over-budget turns: for each turn before the recent window whose    *)
(* original cost would push the running total of the older turns past the  *)
(* older budget (maxTokens minus the tokens of the recent window, at least *)
(* 0), compress includes the aggressively shortened form of the turn       *)
(* whenever that form fits into what remains of the older budget and drops *)
(* the turn only when it does not, for both settings of preserveToolCalls; *)
(* the aggressively shortened form has no tool parts exactly when          *)
(* preserveToolCalls is false.                                             *)
ShortenedIncludedWhenFits ==
  LET history == hc.history
      o == hc.options
      preserveFrom == Max(0, Len(history) - o.preserveRecentTurns * 2)
      recentTokens == TotalTokens(SubSeq(history, preserveFrom + 1, Len(history)), o)
      olderBudget == Max(0, o.maxTokens - recentTokens)
  IN /\ TotalTokens(history, o) > o.maxTokens =>
          OlderLoop(history, 1, preserveFrom, olderBudget, <<>>, 0, o)
            = IncludeWhenFits(history, 1, preserveFrom, olderBudget, <<>>, 0, o)
     /\ \A i \in DOMAIN history :
          hasToolCalls(history[i]) =>
            (AggressiveToolParts(history[i], o) = <<>> <=> ~o.preserveToolCalls)

====
